---- MODULE Spec2Model ----
(***************************************************************************)
(* A model of the AI proxy gateway: the sliding-window rate limiter        *)
(* (src/src/services/rate_limiter.py), the backend manager                 *)
(* (src/src/services/backend_manager.py), the two completion handlers of   *)
(* src/main.py, the metrics collector (src/src/services/metrics.py) and    *)
(* the context manager (src/src/services/context_manager.py).              *)
(*                                                                         *)
(* Spec          is the gateway: the request handlers, forward_request     *)
(*               with its retries and check_health, over every             *)
(*               configuration of GatewayConfigs.                          *)
(* SpecSelect    is select_backend over every configuration of             *)
(*               SelectConfigs.                                            *)
(* SpecRL        is the rate limiter alone, driven by a clock that never   *)
(*               goes back.                                                *)
(* SpecThreads   is the rate limiter called from two threads.              *)
(* SpecHealth    is the gateway while the clock advances.                  *)
(* SpecProbe     is check_health with the dictionary it returns.           *)
(* SpecMetrics   is the metrics collector alone.                           *)
(* SpecMetered   is the gateway behind the middleware that records the     *)
(*               replies in the metrics collector.                         *)
(* SpecTranslate is the translation of requests and responses.             *)
(* SpecContext   and SpecMessages are the context manager: the life of     *)
(*               the sessions and their content; SpecContextLive is the    *)
(*               sweep under calls that keep coming; SpecShared is the map *)
(*               under addresses and agent strings that hold a colon.      *)
(***************************************************************************)
EXTENDS Integers, Sequences, FiniteSets, TLC

VARIABLES
    \* ---- rate limiter (RateLimiter) ----
    rlConfig,       \* self.config: [enabled, requests_per_minute, burst_size]
    now,            \* time.time(), in seconds
    requests,       \* self.requests: client id -> queue of admission timestamps
    admitted,       \* history: per client, the times of the check_rate_limit calls
                    \* that returned True since the client's record was last cleared
    rlLast,         \* history: the last check_rate_limit call and what it returned
    \* ---- backend manager (BackendManager) and the handlers of main.py ----
    backends,       \* the configured backends: name -> [enabled, models, max_retries]
    clients,        \* the keys of self.clients
    health_status,  \* self.health_status: name -> flag
    reqs,           \* the request handlers: id -> where the handler is and what it saw
    probe,          \* check_health: where it is in its loop over the clients
                    \* (in SpecProbe also health_results and whether it returned)
    lastSelect,     \* the last direct select_backend call: [model, result]
    \* ---- metrics collector (MetricsCollector) ----
    samples,        \* self.requests: the retained samples, oldest first, as runs
                    \* of equal samples [sample, n]
    backend_metrics,\* self.backend_metrics: backend name -> its counters
    hourly_stats,   \* self.hourly_stats: hour -> its counters
    calls,          \* history: backend name -> the record_request calls naming it
    \* ---- context manager (ContextManager) ----
    cmConfig,       \* max_context_messages, session_timeout, max_sessions,
                    \* cleanup_interval
    heap,           \* the Session objects ever created, by object number
    sessions,       \* self.sessions: the object numbers stored in the map, in
                    \* insertion order (each object carries its session_id)
    last_cleanup,   \* self.last_cleanup
    cmLast,         \* history: the last context manager call and what it did
    \* ---- request and response translation ----
    cv,             \* the last translation: its input and its result
    \* ---- threads calling the rate limiter ----
    threads,        \* thread -> the call it is in: [pc, op, client, current_time]
    lock            \* self.lock of the rate limiter: its holder, 0 when free

rlVars == <<rlConfig, now, requests, admitted, rlLast>>
gwVars == <<backends, clients, health_status, reqs, probe, lastSelect>>

mtVars == <<samples, backend_metrics, hourly_stats, calls>>
cmVars == <<cmConfig, heap, sessions, last_cleanup, cmLast>>
thVars == <<threads, lock>>
extVars == <<mtVars, cmVars, cv, thVars>>

vars == <<rlConfig, now, requests, admitted, rlLast,
          backends, clients, health_status, reqs, probe, lastSelect,
          samples, backend_metrics, hourly_stats, calls,
          cmConfig, heap, sessions, last_cleanup, cmLast, cv, threads, lock>>

\* the components a specification leaves out are absent from its states
NoGateway ==
    /\ backends = <<>> /\ clients = {} /\ health_status = <<>>
    /\ reqs = <<>> /\ probe = <<>> /\ lastSelect = <<>>
NoMetrics ==
    samples = <<>> /\ backend_metrics = <<>> /\ hourly_stats = <<>> /\ calls = <<>>
NoContext ==
    /\ cmConfig = <<>> /\ heap = <<>> /\ sessions = <<>>
    /\ last_cleanup = 0 /\ cmLast = <<>>
NoTranslation == cv = <<>>
NoThreads == threads = <<>> /\ lock = 0

(***************************************************************************)
(* Bounds of the model.                                                    *)
(***************************************************************************)
MaxTime == 70       \* the clock stops advancing here
MaxAdmits == 3      \* admissions recorded, over all clients
MaxRpm == 2         \* requests_per_minute is drawn from 1..MaxRpm
MaxBurst == 2       \* burst_size is drawn from 1..MaxBurst
MaxTickFrom == 10   \* SpecThreads and SpecHealth advance the clock while it is
                    \* before this time

Clients == {"c1", "c2"}
\* the clock advances in steps of 10 s and 50 s: two timestamps are 0, 10, ...,
\* 60 or 70 s apart, which puts calls inside, exactly on and outside the edge
\* of both windows
TickSteps == {10, 50}

(***************************************************************************)
(* Rate limiter.                                                           *)
(***************************************************************************)
WindowSeconds == 60
BurstSeconds == 10

\* self.requests[client_id] of a defaultdict(deque): a missing key reads empty
Queue(c) == IF c \in DOMAIN requests THEN requests[c] ELSE <<>>

\* self.requests after the queue of c was (created and) set to q
WithQueue(c, q) ==
    [k \in (DOMAIN requests) \cup {c} |-> IF k = c THEN q ELSE requests[k]]

\* while client_requests and client_requests[0] < window_start: popleft()
RECURSIVE PopExpired(_, _)
PopExpired(q, window_start) ==
    IF q # <<>> /\ q[1] < window_start
    THEN PopExpired(Tail(q), window_start)
    ELSE q

\* len(client_requests) >= self.config.requests_per_minute
OverMinuteLimitLax(q) == Len(q) > rlConfig.requests_per_minute
OverMinuteLimit(q) == Len(q) >= rlConfig.requests_per_minute

\* sum(1 for req_time in client_requests if req_time > current_time - 10)
RecentRequests(q, current_time) ==
    Cardinality({i \in DOMAIN q : q[i] > current_time - BurstSeconds})

\* recent_requests >= self.config.burst_size
OverBurstLimit(q, current_time) ==
    RecentRequests(q, current_time) >= rlConfig.burst_size

\* The queue of c and the answer after check_rate_limit(c) at current_time,
\* with the limiter enabled.
CheckOutcomeCounting(c, current_time) ==
    LET q == PopExpired(Queue(c), current_time - WindowSeconds)
    IN  IF OverMinuteLimit(q)
        THEN [queue |-> Append(q, current_time), result |-> FALSE, why |-> "minute"]
        ELSE IF OverBurstLimit(q, current_time)
             THEN [queue |-> Append(q, current_time), result |-> FALSE, why |-> "burst"]
             ELSE [queue |-> Append(q, current_time), result |-> TRUE, why |-> "ok"]
CheckOutcome(c, current_time) ==
    LET q == PopExpired(Queue(c), current_time - WindowSeconds)
    IN  IF OverMinuteLimit(q) THEN [queue |-> q, result |-> FALSE, why |-> "minute"]
        ELSE IF OverBurstLimit(q, current_time)
             THEN [queue |-> q, result |-> FALSE, why |-> "burst"]
             ELSE [queue |-> Append(q, current_time), result |-> TRUE, why |-> "ok"]

RECURSIVE SumLen(_, _)
SumLen(f, S) ==
    IF S = {} THEN 0
    ELSE LET x == CHOOSE y \in S : TRUE IN Len(f[x]) + SumLen(f, S \ {x})

TotalAdmitted == SumLen(admitted, Clients)

\* RateLimiter.check_rate_limit(client_id)
RLCheck(c) ==
    /\ TotalAdmitted < MaxAdmits
    /\ IF ~rlConfig.enabled
       THEN /\ UNCHANGED requests
            /\ admitted' = [admitted EXCEPT ![c] = Append(@, now)]
            /\ rlLast' = [client |-> c, result |-> TRUE, why |-> "disabled"]
       ELSE LET o == CheckOutcome(c, now)
            IN  /\ requests' = WithQueue(c, o.queue)
                /\ admitted' = IF o.result
                               THEN [admitted EXCEPT ![c] = Append(@, now)]
                               ELSE admitted
                /\ rlLast' = [client |-> c, result |-> o.result, why |-> o.why]
    /\ UNCHANGED <<rlConfig, now, gwVars, extVars>>

\* RateLimiter.get_remaining_requests(client_id): what it returns (-1 stands
\* for float('inf')) and what it does to the queues
RemainingRequests(c) ==
    IF ~rlConfig.enabled THEN -1
    ELSE LET left == rlConfig.requests_per_minute
                        - Len(PopExpired(Queue(c), now - WindowSeconds))
         IN  IF left > 0 THEN left ELSE 0

RLRemaining(c) ==
    /\ rlConfig.enabled
    /\ requests' = WithQueue(c, PopExpired(Queue(c), now - WindowSeconds))
    /\ UNCHANGED <<rlConfig, now, admitted, rlLast, gwVars, extVars>>

\* the first req_time of the queue with req_time > window_start, or -1 for None
RECURSIVE EarliestInWindow(_, _)
EarliestInWindow(q, window_start) ==
    IF q = <<>> THEN -1
    ELSE IF q[1] > window_start THEN q[1]
    ELSE EarliestInWindow(Tail(q), window_start)

\* RateLimiter.get_reset_time(client_id): the time it returns, in seconds
\* ("if earliest_request:" is false for None and for 0.0), and the key that
\* reading self.requests[client_id] creates
ResetTime(c) ==
    LET earliest == EarliestInWindow(Queue(c), now - WindowSeconds)
    IN  IF rlConfig.enabled /\ earliest > 0 THEN earliest + WindowSeconds ELSE now

RLResetTime(c) ==
    /\ rlConfig.enabled
    /\ requests' = WithQueue(c, Queue(c))
    /\ UNCHANGED <<rlConfig, now, admitted, rlLast, gwVars, extVars>>

\* RateLimiter.clear_client(client_id)
RLClear(c) ==
    /\ c \in DOMAIN requests
    /\ requests' = [k \in (DOMAIN requests) \ {c} |-> requests[k]]
    /\ admitted' = [admitted EXCEPT ![c] = <<>>]
    /\ UNCHANGED <<rlConfig, now, rlLast, gwVars, extVars>>

\* time passes between calls; time.time() never goes back
Tick ==
    /\ \E d \in TickSteps : now + d <= MaxTime /\ now' = now + d
    /\ UNCHANGED <<rlConfig, requests, admitted, rlLast, gwVars, extVars>>

NoCall == [client |-> "c1", result |-> TRUE, why |-> "none"]

\* the rate limit configurations tried (RateLimitConfig)
RLConfigs ==
    [enabled : {TRUE}, requests_per_minute : 1..MaxRpm, burst_size : 1..MaxBurst]
    \cup [enabled : {FALSE}, requests_per_minute : {1}, burst_size : {1}]

InitRL ==
    /\ rlConfig \in RLConfigs
    /\ now = 0
    /\ requests = <<>>
    /\ admitted = [c \in Clients |-> <<>>]
    /\ rlLast = NoCall
    /\ NoGateway /\ NoMetrics /\ NoContext /\ NoTranslation /\ NoThreads

NextRL ==
    \/ \E c \in Clients : RLCheck(c)
    \/ \E c \in Clients : RLRemaining(c)
    \/ \E c \in Clients : RLResetTime(c)
    \/ \E c \in Clients : RLClear(c)
    \/ Tick

SpecRL == InitRL /\ [][NextRL]_vars

(***************************************************************************)
(* Backend manager: configuration and select_backend.                      *)
(***************************************************************************)
MaxRetries == 3     \* max_retries is drawn from 0..MaxRetries

\* the backends in configuration order; forward_request and check_health
\* dispatch on these three names
BackendOrder == <<"openai", "claude", "gemini">>
BackendNames == {BackendOrder[i] : i \in DOMAIN BackendOrder}

\* model names are strings, kept as sequences of characters
ModelNames == {<<"a">>, <<"A", "b">>, <<"b">>}
\* the model lists a backend may declare
ModelLists == {<<>>} \cup {<<m>> : m \in ModelNames} \cup {<<(<<"b">>), (<<"a">>)>>}

\* str.lower(), on one character and on a string
LowerChar(ch) == IF ch = "A" THEN "a" ELSE IF ch = "B" THEN "b" ELSE ch
Lower(str) == [i \in DOMAIN str |-> LowerChar(str[i])]

\* Python's "sub in str" on strings: sub is a contiguous part of str
Contains(sub, str) ==
    \E i \in 0..(Len(str) - Len(sub)) : SubSeq(str, i + 1, i + Len(sub)) = sub

\* model in backend.models
ListsExactly(name, model) ==
    \E i \in DOMAIN backends[name].models : backends[name].models[i] = model

\* model.lower() in backend_model.lower() or backend_model.lower() in model.lower()
FuzzyMatch(model, backend_model) ==
    \/ Contains(Lower(model), Lower(backend_model))
    \/ Contains(Lower(backend_model), Lower(model))

ListsFuzzily(name, model) ==
    \E i \in DOMAIN backends[name].models :
        FuzzyMatch(model, backends[name].models[i])

\* self.health_status.get(name, False)
HealthyAlways(name) == TRUE
Healthy(name) ==
    IF name \in DOMAIN health_status THEN health_status[name] ELSE FALSE

\* config_manager.get_enabled_backends(): the enabled backends, in
\* configuration order
IsEnabled(name) == backends[name].enabled
EnabledBackends == SelectSeq(BackendOrder, IsEnabled)

\* BackendManager.select_backend(model); "none" stands for None
SelectBackendFuzzyFirst(model) ==
    LET fuzzy == SelectSeq(EnabledBackends,
                    LAMBDA n : Healthy(n) /\ ListsFuzzily(n, model))
    IN  IF fuzzy # <<>> THEN fuzzy[1] ELSE "none"
SelectBackendLast(model) ==
    LET exact == SelectSeq(EnabledBackends,
                    LAMBDA n : ListsExactly(n, model) /\ Healthy(n))
        fuzzy == SelectSeq(EnabledBackends,
                    LAMBDA n : Healthy(n) /\ ListsFuzzily(n, model))
    IN  IF exact # <<>> THEN exact[Len(exact)]
        ELSE IF fuzzy # <<>> THEN fuzzy[Len(fuzzy)]
        ELSE "none"
SelectBackend(model) ==
    LET exact == SelectSeq(EnabledBackends,
                    LAMBDA n : ListsExactly(n, model) /\ Healthy(n))
        fuzzy == SelectSeq(EnabledBackends,
                    LAMBDA n : Healthy(n) /\ ListsFuzzily(n, model))
    IN  IF exact # <<>> THEN exact[1]
        ELSE IF fuzzy # <<>> THEN fuzzy[1]
        ELSE "none"

(***************************************************************************)
(* Backend manager: forward_request.                                       *)
(***************************************************************************)
\* what a backend call can end in: a response with a status and a body, or
\* an httpx exception before any status
Bodies == {"ok", "not_json", "block_not_object"}
Outcomes ==
    [kind : {"response"}, code : {200}, body : Bodies]
    \cup [kind : {"response"}, code : {302, 404, 500, 503}, body : {"ok"}]
    \cup [kind : {"timeout", "connect_error", "other_transport_error"},
          code : {0}, body : {"ok"}]

\* the shapes of the request's messages list
MessageShapes == {"ok", "empty", "no_content"}

NoError == [kind |-> "none", code |-> 0]
Raised(kind, code) == [kind |-> kind, code |-> code]

\* _convert_request raises KeyError on msg["content"] for the two translated
\* families when a message has no content field
ConvertRequestRaises(backend_name, messages) ==
    backend_name \in {"claude", "gemini"} /\ messages = "no_content"

\* response.raise_for_status(): HTTPStatusError unless the status is 2xx
IsSuccess(code) == code >= 200 /\ code < 300

\* response.json() raises when the body is not JSON
JsonRaises(body) == body = "not_json"

\* _convert_response: content[0].get / candidates[0].get raise AttributeError
\* when the first block is not an object; the openai branch returns the data
ConvertResponseRaises(backend_name, body) ==
    backend_name \in {"claude", "gemini"} /\ body = "block_not_object"

\* e.response.status_code >= 500
IsServerErrorLax(code) == code >= 400
IsServerError(code) == code >= 500

\* except (httpx.TimeoutException, httpx.ConnectError)
IsCaughtTransportError(kind) == kind \in {"timeout", "connect_error"}

\* attempt < max_retries
MayRetryOnceMore(backend_name, attempt) == attempt <= backends[backend_name].max_retries
MayRetry(backend_name, attempt) == attempt < backends[backend_name].max_retries

\* 2 ** attempt
RECURSIVE Pow2(_)
Pow2(n) == IF n = 0 THEN 1 ELSE 2 * Pow2(n - 1)
Backoff(attempt) == Pow2(attempt)

\* self.health_status[backend_name] = flag
SetHealthAll(backend_name, flag) ==
    [n \in (DOMAIN health_status) \cup {backend_name} |-> flag]
SetHealth(backend_name, flag) ==
    [n \in (DOMAIN health_status) \cup {backend_name} |->
        IF n = backend_name THEN flag ELSE health_status[n]]

\* One pass of the retry loop of forward_request from the moment
\* client.post returns or raises: the health map afterwards and how the pass
\* ends ("return", "sleep" before the next attempt, or "raise").
HandleAttempt(backend_name, attempt, o) ==
    IF o.kind = "response" /\ IsSuccess(o.code)
    THEN IF JsonRaises(o.body)
         THEN [health |-> health_status, next |-> "raise",
               raised |-> Raised("json_error", 0)]
         ELSE IF ConvertResponseRaises(backend_name, o.body)
         THEN [health |-> health_status, next |-> "raise",
               raised |-> Raised("convert_error", 0)]
         ELSE [health |-> SetHealth(backend_name, TRUE), next |-> "return",
               raised |-> NoError]
    ELSE IF o.kind = "response"
    THEN IF IsServerError(o.code)
         THEN [health |-> SetHealth(backend_name, FALSE),
               next |-> IF MayRetry(backend_name, attempt) THEN "sleep" ELSE "raise",
               raised |-> Raised("http_status", o.code)]
         ELSE [health |-> health_status, next |-> "raise",
               raised |-> Raised("http_status", o.code)]
    ELSE IF IsCaughtTransportError(o.kind)
    THEN [health |-> SetHealth(backend_name, FALSE),
          next |-> IF MayRetry(backend_name, attempt) THEN "sleep" ELSE "raise",
          raised |-> Raised(o.kind, 0)]
    ELSE [health |-> health_status, next |-> "raise", raised |-> Raised(o.kind, 0)]

(***************************************************************************)
(* The handlers of main.py.                                                *)
(***************************************************************************)
Reqs == {1}
GatewayClients == {"c1"}
Endpoints == {"chat", "completions"}
RequestModels == ModelNames \cup {<<>>}

\* chat_completions: except httpx.HTTPStatusError passes the status on,
\* except Exception answers 500; completions has the second clause only
ReplyFor(endpoint, raised) ==
    IF endpoint = "chat" /\ raised.kind = "http_status" THEN raised.code ELSE 500

\* the HTTPException(400) the handlers raise inside their try block is an
\* Exception: the except Exception clause catches it and raises 500 instead
RaisedInsideTry(status) == ReplyFor("chat", Raised("http_exception", status))

IdleReq ==
    [pc |-> "idle", endpoint |-> "chat", model |-> <<>>, messages |-> "ok",
     limited |-> FALSE, selected |-> FALSE, backend |-> "none",
     attempt |-> 0, attempts |-> 0, sleeps |-> <<>>,
     outcome |-> [kind |-> "none", code |-> 0, body |-> "ok"],
     all5xx |-> TRUE, raised |-> NoError, status |-> 0]

\* a request arrives: the check_rate_limit dependency of both routes
ReqArriveUnchecked(r) ==
    /\ reqs[r].pc \in {"idle", "done"}
    /\ \E ep \in Endpoints, c \in GatewayClients :
        IF rlConfig.enabled
        THEN LET o == CheckOutcome(c, now)
             IN  /\ requests' = WithQueue(c, o.queue)
                 /\ admitted' = IF o.result
                                THEN [admitted EXCEPT ![c] = Append(@, now)]
                                ELSE admitted
                 /\ rlLast' = [client |-> c, result |-> o.result, why |-> o.why]
                 /\ reqs' = [reqs EXCEPT ![r] =
                        [IdleReq EXCEPT !.pc = "admitted", !.endpoint = ep,
                                        !.limited = ~o.result]]
        ELSE /\ reqs' = [reqs EXCEPT ![r] =
                        [IdleReq EXCEPT !.pc = "admitted", !.endpoint = ep]]
             /\ UNCHANGED <<requests, admitted, rlLast>>
    /\ UNCHANGED <<rlConfig, now, backends, clients, health_status, probe, lastSelect, extVars>>
ReqArrive(r) ==
    /\ reqs[r].pc \in {"idle", "done"}
    /\ \E ep \in Endpoints, c \in GatewayClients :
        IF rlConfig.enabled
        THEN LET o == CheckOutcome(c, now)
             IN  /\ requests' = WithQueue(c, o.queue)
                 /\ admitted' = IF o.result
                                THEN [admitted EXCEPT ![c] = Append(@, now)]
                                ELSE admitted
                 /\ rlLast' = [client |-> c, result |-> o.result, why |-> o.why]
                 /\ reqs' = [reqs EXCEPT ![r] =
                        IF o.result
                        THEN [IdleReq EXCEPT !.pc = "admitted", !.endpoint = ep]
                        ELSE [IdleReq EXCEPT !.pc = "done", !.endpoint = ep,
                                             !.limited = TRUE, !.status = 429]]
        ELSE /\ reqs' = [reqs EXCEPT ![r] =
                        [IdleReq EXCEPT !.pc = "admitted", !.endpoint = ep]]
             /\ UNCHANGED <<requests, admitted, rlLast>>
    /\ UNCHANGED <<rlConfig, now, backends, clients, health_status, probe, lastSelect, extVars>>

\* the body of chat_completions / completions up to the first network
\* attempt: model check, select_backend, forward_request's lookup and
\* request translation, client.post
ReqHandle(r) ==
    /\ reqs[r].pc = "admitted"
    /\ \E model \in RequestModels, messages \in MessageShapes :
        LET seen == [reqs[r] EXCEPT !.model = model, !.messages = messages]
            b == SelectBackend(model)
            fail(rec, raised, status) ==
                [rec EXCEPT !.pc = "done", !.raised = raised, !.status = status]
        IN  reqs' = [reqs EXCEPT ![r] =
                IF model = <<>>
                THEN fail(seen, Raised("http_exception", 400), RaisedInsideTry(400))
                ELSE IF b = "none"
                THEN fail([seen EXCEPT !.selected = TRUE],
                          Raised("http_exception", 400), RaisedInsideTry(400))
                ELSE IF b \notin clients
                THEN fail([seen EXCEPT !.selected = TRUE, !.backend = b],
                          Raised("value_error", 0),
                          ReplyFor(seen.endpoint, Raised("value_error", 0)))
                ELSE IF ConvertRequestRaises(b, messages)
                THEN fail([seen EXCEPT !.selected = TRUE, !.backend = b],
                          Raised("key_error", 0),
                          ReplyFor(seen.endpoint, Raised("key_error", 0)))
                ELSE [seen EXCEPT !.pc = "inflight", !.selected = TRUE,
                                  !.backend = b, !.attempt = 0, !.attempts = 1]]
    /\ UNCHANGED <<rlVars, backends, clients, health_status, probe, lastSelect, extVars>>

\* client.post returns or raises for the attempt in flight; the handler runs
\* on to the next await (the backoff sleep) or to its reply
ReqResponse(r) ==
    /\ reqs[r].pc = "inflight"
    /\ \E o \in Outcomes :
        LET q == reqs[r]
            h == HandleAttempt(q.backend, q.attempt, o)
            seen == [q EXCEPT !.outcome = o, !.raised = h.raised,
                              !.all5xx = @ /\ o.kind = "response" /\ o.code >= 500]
        IN  /\ health_status' = h.health
            /\ reqs' = [reqs EXCEPT ![r] =
                    IF h.next = "return"
                    THEN [seen EXCEPT !.pc = "done", !.status = 200]
                    ELSE IF h.next = "sleep"
                    THEN [seen EXCEPT !.pc = "sleeping",
                                      !.sleeps = Append(@, Backoff(q.attempt))]
                    ELSE [seen EXCEPT !.pc = "done",
                                      !.status = ReplyFor(q.endpoint, h.raised)]]
    /\ UNCHANGED <<rlVars, backends, clients, probe, lastSelect, extVars>>

\* for attempt in range(max_retries + 1)
InLoopRange(backend_name, attempt) ==
    attempt < backends[backend_name].max_retries + 1

\* asyncio.sleep returns and the loop goes on: the next pass posts again;
\* past the last pass the loop ends and last_exception is raised
ReqWake(r) ==
    /\ reqs[r].pc = "sleeping"
    /\ reqs' = [reqs EXCEPT ![r] =
            IF InLoopRange(@.backend, @.attempt + 1)
            THEN [@ EXCEPT !.pc = "inflight", !.attempt = @ + 1, !.attempts = @ + 1]
            ELSE [@ EXCEPT !.pc = "done", !.status = ReplyFor(@.endpoint, @.raised)]]
    /\ UNCHANGED <<rlVars, backends, clients, health_status, probe, lastSelect, extVars>>

(***************************************************************************)
(* check_health.                                                           *)
(***************************************************************************)
InClients(name) == name \in clients
ClientOrder == SelectSeq(BackendOrder, InClients)

\* check_health is called: it starts with the first client
ProbeStart ==
    /\ probe.pc = "idle"
    /\ ClientOrder # <<>>
    /\ probe' = [pc |-> "probing", idx |-> 1]
    /\ UNCHANGED <<rlVars, backends, clients, health_status, reqs, lastSelect, extVars>>

\* a probe that got any response marks the backend healthy, one that raised
\* marks it unhealthy
ProbeFlag(o) == o.kind = "response"

\* the probe of the current client returns (with any status) or raises
ProbeResponse ==
    /\ probe.pc = "probing"
    /\ \E o \in Outcomes :
        /\ health_status' = SetHealth(ClientOrder[probe.idx], ProbeFlag(o))
        /\ probe' = IF probe.idx = Len(ClientOrder)
                    THEN [pc |-> "idle", idx |-> 0]
                    ELSE [pc |-> "probing", idx |-> probe.idx + 1]
    /\ UNCHANGED <<rlVars, backends, clients, reqs, lastSelect, extVars>>

\* select_backend(model), called on its own
SelectCall ==
    /\ \E model \in RequestModels :
            lastSelect' = [model |-> model, result |-> SelectBackend(model)]
    /\ UNCHANGED <<rlVars, backends, clients, health_status, reqs, probe, extVars>>

(***************************************************************************)
(* The gateway.                                                            *)
(***************************************************************************)
\* BackendManager.__init__ / initialize_clients: a client and a True flag for
\* every enabled backend
InitBackendManager ==
    /\ clients = {n \in BackendNames : backends[n].enabled}
    /\ health_status = [n \in {m \in BackendNames : backends[m].enabled} |-> TRUE]
    /\ probe = [pc |-> "idle", idx |-> 0]
    /\ lastSelect = [model |-> <<>>, result |-> "none"]

InitRateLimiter(configs) ==
    /\ rlConfig \in configs
    /\ now = 0
    /\ requests = <<>>
    /\ admitted = [c \in Clients |-> <<>>]
    /\ rlLast = NoCall

\* the configurations of the gateway: every choice of enabled backends, each
\* backend with one model, every max_retries up to MaxRetries
GatewayModels == [openai |-> <<(<<"a">>)>>, claude |-> <<(<<"A", "b">>)>>,
                  gemini |-> <<(<<"b">>)>>]
GatewayConfigs ==
    {[n \in BackendNames |->
        [enabled |-> n \in on, models |-> GatewayModels[n], max_retries |-> k]] :
     on \in SUBSET BackendNames, k \in 0..MaxRetries}

\* the limiter is disabled or admits one request per client; the clock stands
\* still in this specification (SpecRL is the one that moves it)
Init ==
    /\ InitRateLimiter({c \in RLConfigs :
                            c.requests_per_minute = 1 /\ c.burst_size = 1})
    /\ backends \in GatewayConfigs
    /\ InitBackendManager
    /\ reqs = [r \in Reqs |-> IdleReq]
    /\ NoMetrics /\ NoContext /\ NoTranslation /\ NoThreads

Next ==
    \/ \E r \in Reqs : ReqArrive(r)
    \/ \E r \in Reqs : ReqHandle(r)
    \/ \E r \in Reqs : ReqResponse(r)
    \/ \E r \in Reqs : ReqWake(r)
    \/ ProbeStart
    \/ ProbeResponse

Spec == Init /\ [][Next]_vars

\* select_backend over every configuration: each backend enabled or not, with
\* any of the model lists; the flags change through check_health
SelectConfigs ==
    [BackendNames -> [enabled : BOOLEAN, models : ModelLists, max_retries : {0}]]

InitSelect ==
    /\ InitRateLimiter({c \in RLConfigs : ~c.enabled})
    /\ backends \in SelectConfigs
    /\ InitBackendManager
    /\ reqs = [r \in Reqs |-> IdleReq]
    /\ NoMetrics /\ NoContext /\ NoTranslation /\ NoThreads

NextSelect ==
    \/ SelectCall
    \/ ProbeStart
    \/ ProbeResponse

SpecSelect == InitSelect /\ [][NextSelect]_vars

\* the gateway while the clock advances: the limiter disabled, every choice of
\* enabled backends, max_retries 1
HealthConfigs == {c \in GatewayConfigs : \A n \in BackendNames : c[n].max_retries = 1}

InitHealth ==
    /\ InitRateLimiter({c \in RLConfigs : ~c.enabled})
    /\ backends \in HealthConfigs
    /\ InitBackendManager
    /\ reqs = [r \in Reqs |-> IdleReq]
    /\ NoMetrics /\ NoContext /\ NoTranslation /\ NoThreads

NextHealth ==
    \/ \E r \in Reqs : ReqArrive(r)
    \/ \E r \in Reqs : ReqHandle(r)
    \/ \E r \in Reqs : ReqResponse(r)
    \/ \E r \in Reqs : ReqWake(r)
    \/ ProbeStart
    \/ ProbeResponse
    \/ now < MaxTickFrom /\ Tick

SpecHealth == InitHealth /\ [][NextHealth]_vars

\* check_health with the dictionary it returns. health_results[name] is
\* {"healthy": True, ...} when the probe call returned and {"healthy": False,
\* ...} when it raised; kind and code keep what the probe call ended in.
HealthResult(o) == [healthy |-> ProbeFlag(o), kind |-> o.kind, code |-> o.code]

\* check_health is called: health_results = {} and the loop over self.clients
\* starts; without clients it returns the empty dictionary at once
CheckHealthCall ==
    /\ probe.pc = "idle"
    /\ probe' = IF ClientOrder = <<>>
                THEN [pc |-> "idle", idx |-> 0, results |-> <<>>, returned |-> TRUE]
                ELSE [pc |-> "probing", idx |-> 1, results |-> <<>>, returned |-> FALSE]
    /\ UNCHANGED <<rlVars, backends, clients, health_status, reqs, lastSelect, extVars>>

\* one pass of the loop: the probe call of the current client returns (with
\* any status) or raises; after the last client check_health returns
CheckHealthProbe ==
    /\ probe.pc = "probing"
    /\ \E o \in Outcomes :
        LET name == ClientOrder[probe.idx]
            last == probe.idx = Len(ClientOrder)
        IN  /\ health_status' = SetHealth(name, ProbeFlag(o))
            /\ probe' = [pc |-> IF last THEN "idle" ELSE "probing",
                         idx |-> IF last THEN 0 ELSE probe.idx + 1,
                         results |-> [n \in (DOMAIN probe.results) \cup {name} |->
                                        IF n = name THEN HealthResult(o)
                                        ELSE probe.results[n]],
                         returned |-> last]
    /\ UNCHANGED <<rlVars, backends, clients, reqs, lastSelect, extVars>>

InitProbe ==
    /\ InitRateLimiter({c \in RLConfigs : ~c.enabled})
    /\ backends \in HealthConfigs
    /\ clients = {n \in BackendNames : backends[n].enabled}
    /\ health_status = [n \in {m \in BackendNames : backends[m].enabled} |-> TRUE]
    /\ probe = [pc |-> "idle", idx |-> 0, results |-> <<>>, returned |-> FALSE]
    /\ lastSelect = [model |-> <<>>, result |-> "none"]
    /\ reqs = [r \in Reqs |-> IdleReq]
    /\ NoMetrics /\ NoContext /\ NoTranslation /\ NoThreads

NextProbe ==
    \/ CheckHealthCall
    \/ CheckHealthProbe

SpecProbe == InitProbe /\ [][NextProbe]_vars

(***************************************************************************)
(* Claims about the rate limiter.                                          *)
(***************************************************************************)
\* the calls of c that returned True with admission time in [lo, hi]
AdmittedIn(c, lo, hi) ==
    Cardinality({i \in DOMAIN admitted[c] :
                    admitted[c][i] >= lo /\ admitted[c][i] <= hi})

\* C1: with the limiter enabled, after any sequence of check_rate_limit calls
\* (counted since the client's record was last cleared), for every client and every instant t at
\* most requests_per_minute of the client's admitted calls fall in [t-60, t].
C1_MinuteWindow ==
    rlConfig.enabled =>
        \A c \in Clients : \A t \in 0..MaxTime :
            AdmittedIn(c, t - WindowSeconds, t) <= rlConfig.requests_per_minute

\* a call rejected by the per-minute limit while the burst limit would admit
C1_Witness ==
    /\ rlConfig.enabled
    /\ ~rlLast.result /\ rlLast.why = "minute"
    /\ ~OverBurstLimit(Queue(rlLast.client), now)
    /\ AdmittedIn(rlLast.client, now - WindowSeconds, now)
            = rlConfig.requests_per_minute
    /\ Len(admitted[rlLast.client]) > 0

\* C2: with the limiter enabled, for every client and every instant t at most
\* burst_size of the client's admitted calls fall in [t-10, t], ends included.
C2_BurstWindowClosed ==
    rlConfig.enabled =>
        \A c \in Clients : \A t \in 0..MaxTime :
            AdmittedIn(c, t - BurstSeconds, t) <= rlConfig.burst_size

(***************************************************************************)
(* Claims about select_backend.                                            *)
(***************************************************************************)
\* C3: in every reachable state and for every requested model, select_backend
\* returns none or a backend that is enabled, whose health flag is present
\* and true, and whose model list holds an exact or a fuzzy match.
C3_SelectEligible ==
    \A m \in RequestModels :
        LET b == SelectBackend(m)
        IN  b # "none" =>
                /\ b \in BackendNames
                /\ backends[b].enabled
                /\ b \in DOMAIN health_status /\ health_status[b]
                /\ \E i \in DOMAIN backends[b].models :
                      LET bm == backends[b].models[i]
                      IN  \/ bm = m
                          \/ Contains(Lower(m), Lower(bm))
                          \/ Contains(Lower(bm), Lower(m))

\* a call that returned a fuzzy match while an enabled backend that lists the
\* model exactly is flagged unhealthy and a disabled one lists it too
C3_Witness ==
    /\ lastSelect.result # "none"
    /\ lastSelect.result = SelectBackend(lastSelect.model)
    /\ ~ListsExactly(lastSelect.result, lastSelect.model)
    /\ \E n \in BackendNames :
          backends[n].enabled /\ ListsExactly(n, lastSelect.model) /\ ~Healthy(n)
    /\ \E n \in BackendNames :
          ~backends[n].enabled /\ ListsExactly(n, lastSelect.model)

\* the enabled backends that list the model exactly
ExactListers(m) == {n \in BackendNames : backends[n].enabled /\ ListsExactly(n, m)}

\* C4: for every model listed exactly by exactly one enabled backend: if that
\* backend's flag is true select_backend returns it; if the flag is false and
\* no healthy enabled backend fuzzy-matches the model, it returns none.
C4_UniqueLister ==
    \A m \in RequestModels : \A b \in BackendNames :
        ExactListers(m) = {b} =>
            /\ Healthy(b) => SelectBackend(m) = b
            /\ (/\ ~Healthy(b)
                /\ ~\E n \in BackendNames :
                       backends[n].enabled /\ Healthy(n) /\ ListsFuzzily(n, m))
               => SelectBackend(m) = "none"

\* a call for a model whose only exact lister is unhealthy returned none while
\* another enabled backend is healthy, and an earlier backend in configuration
\* order would match the model fuzzily if it were healthy
C4_Witness ==
    /\ lastSelect.result = "none"
    /\ lastSelect.model # <<>>
    /\ \E b \in BackendNames :
          /\ ExactListers(lastSelect.model) = {b}
          /\ ~Healthy(b)
          /\ \E n \in BackendNames \ {b} : backends[n].enabled /\ Healthy(n)
    /\ SelectBackend(lastSelect.model) = "none"

\* the place of a backend in configuration order
PlaceInOrder(n) == CHOOSE i \in DOMAIN BackendOrder : BackendOrder[i] = n

\* C27: for every model, when some enabled healthy backend lists the model
\* exactly, select_backend returns the first of these in configuration
\* order, whatever fuzzy-matching backend comes earlier; when none does and
\* some enabled healthy backend matches the model fuzzily, it returns the
\* first of those.
C27_ExactBeforeFuzzyInOrder ==
    \A m \in RequestModels :
        LET exact == {n \in BackendNames :
                        backends[n].enabled /\ Healthy(n) /\ ListsExactly(n, m)}
            fuzzy == {n \in BackendNames :
                        backends[n].enabled /\ Healthy(n) /\ ListsFuzzily(n, m)}
            b == SelectBackend(m)
        IN  /\ exact # {} =>
                  /\ b \in exact
                  /\ \A n \in exact : PlaceInOrder(b) <= PlaceInOrder(n)
            /\ (exact = {} /\ fuzzy # {}) =>
                  /\ b \in fuzzy
                  /\ \A n \in fuzzy : PlaceInOrder(b) <= PlaceInOrder(n)

\* a call that returned the second backend, which lists the model exactly,
\* while the first backend is enabled, healthy and matches the model only
\* fuzzily, and the third lists the model exactly too
C27_Witness ==
    /\ lastSelect.result = BackendOrder[2]
    /\ lastSelect.result = SelectBackend(lastSelect.model)
    /\ ListsExactly(BackendOrder[2], lastSelect.model)
    /\ backends[BackendOrder[1]].enabled /\ Healthy(BackendOrder[1])
    /\ ListsFuzzily(BackendOrder[1], lastSelect.model)
    /\ ~ListsExactly(BackendOrder[1], lastSelect.model)
    /\ backends[BackendOrder[3]].enabled /\ Healthy(BackendOrder[3])
    /\ ListsExactly(BackendOrder[3], lastSelect.model)

(***************************************************************************)
(* Claims about forward_request.                                           *)
(***************************************************************************)
\* the step in which request r handles the response (or exception) of the
\* attempt it had in flight
HandlesResponse(r) == reqs[r].pc = "inflight" /\ reqs'[r].pc # "inflight"

\* 2^0, ..., 2^(n-1)
PowersOfTwo(n) == [k \in 1..n |-> 2 ^ (k - 1)]

\* C5: a forward_request whose every attempt is answered with a 5xx status
\* sleeps 2^k seconds after attempt k while k < max_retries, and after attempt
\* max_retries it ends at once: max_retries + 1 attempts made, no further
\* sleep, the backend's flag false and the last attempt's error raised.
C5_RetryExhaustion ==
    [][\A r \in Reqs :
        (HandlesResponse(r) /\ reqs'[r].all5xx) =>
            LET q == reqs[r]
                q2 == reqs'[r]
                n == backends[q.backend].max_retries
            IN  /\ health_status'[q.backend] = FALSE
                /\ q.attempt <= n
                /\ q.attempt < n =>
                      /\ q2.pc = "sleeping"
                      /\ q2.sleeps = PowersOfTwo(q.attempt + 1)
                /\ q.attempt = n =>
                      /\ q2.pc = "done"
                      /\ q2.attempts = n + 1
                      /\ q2.sleeps = PowersOfTwo(n)
                      /\ q2.raised = Raised("http_status", q2.outcome.code)
      ]_vars

\* a call with max_retries = 3 ended after four 5xx answers, the last one with
\* another status than an earlier one would have been told apart by
C5_Witness ==
    \E r \in Reqs :
        /\ reqs[r].pc = "done" /\ reqs[r].all5xx
        /\ reqs[r].attempts = MaxRetries + 1
        /\ backends[reqs[r].backend].max_retries = MaxRetries
        /\ reqs[r].sleeps = PowersOfTwo(MaxRetries)
        /\ reqs[r].raised = Raised("http_status", 503)
        /\ ~Healthy(reqs[r].backend)

\* the answer of the attempt is a 4xx status
Is4xx(o) == o.kind = "response" /\ o.code >= 400 /\ o.code < 500

\* C6: when an attempt is answered with a 4xx status the call ends there: no
\* sleep and no further attempt (a first-attempt 4xx leaves 1 attempt), the
\* error is raised, and the health map is what it was before the answer.
C6_ClientErrorNoRetry ==
    [][\A r \in Reqs :
        (HandlesResponse(r) /\ Is4xx(reqs'[r].outcome)) =>
            /\ reqs'[r].pc = "done"
            /\ reqs'[r].raised = Raised("http_status", reqs'[r].outcome.code)
            /\ reqs'[r].attempts = reqs[r].attempt + 1
            /\ reqs'[r].sleeps = reqs[r].sleeps
            /\ health_status' = health_status
      ]_vars

\* a first-attempt 4xx from a backend with max_retries 3 that stays healthy,
\* and passed on by the chat route
C6_Witness ==
    \E r \in Reqs :
        /\ reqs[r].pc = "done" /\ Is4xx(reqs[r].outcome)
        /\ reqs[r].attempts = 1 /\ reqs[r].sleeps = <<>>
        /\ backends[reqs[r].backend].max_retries = MaxRetries
        /\ Healthy(reqs[r].backend)

\* C7: every connection-level failure of an attempt (connect error, timeout or
\* any other transport failure) sets the backend's flag to false and is
\* retried with the backoff of a 5xx, up to max_retries + 1 attempts.
C7_TransportFailuresRetried ==
    [][\A r \in Reqs :
        (HandlesResponse(r) /\ reqs'[r].outcome.kind # "response") =>
            LET q == reqs[r]
                n == backends[q.backend].max_retries
            IN  /\ health_status'[q.backend] = FALSE
                /\ q.attempt < n =>
                      /\ reqs'[r].pc = "sleeping"
                      /\ reqs'[r].sleeps = Append(q.sleeps, 2 ^ q.attempt)
                /\ q.attempt = n => reqs'[r].pc = "done"
      ]_vars

\* C8: when an attempt is answered with a 2xx status, the backend's flag is
\* true once forward_request has handled the answer, whatever the body.
C8_SuccessMarksHealthy ==
    [][\A r \in Reqs :
        (/\ HandlesResponse(r)
         /\ reqs'[r].outcome.kind = "response"
         /\ IsSuccess(reqs'[r].outcome.code))
        => /\ reqs[r].backend \in DOMAIN health_status'
           /\ health_status'[reqs[r].backend]
      ]_vars

\* C24: a backend's health flag changes from false to true only in a step
\* where a forward_request call to that backend handles a success response
\* or where check_health probes that backend; a step in which only time
\* passes leaves every flag as it was.
C24_RecoveryOnlyBySuccessOrProbe ==
    [][/\ \A n \in BackendNames :
            (~Healthy(n) /\ n \in DOMAIN health_status' /\ health_status'[n]) =>
                \/ \E r \in Reqs :
                      /\ HandlesResponse(r) /\ reqs[r].backend = n
                      /\ reqs'[r].outcome.kind = "response"
                      /\ IsSuccess(reqs'[r].outcome.code)
                \/ /\ probe.pc = "probing" /\ probe' # probe
                   /\ ClientOrder[probe.idx] = n
       /\ now' # now => health_status' = health_status
      ]_vars

\* some time after the start, a call whose first attempt was answered with a
\* 5xx status (flag false) got a success on its second attempt (flag true),
\* while another backend is still flagged unhealthy
C24_Witness ==
    \E r \in Reqs :
        /\ reqs[r].pc = "done" /\ reqs[r].status = 200 /\ reqs[r].attempts = 2
        /\ Healthy(reqs[r].backend)
        /\ now > 0
        /\ \E n \in BackendNames \ {reqs[r].backend} : backends[n].enabled /\ ~Healthy(n)

\* the step in which a handler gets its backend from select_backend and
\* issues the first client.post of forward_request
IssuesFirstAttempt(r) == reqs[r].pc = "admitted" /\ reqs'[r].pc = "inflight"

\* C32: under any interleaving of requests and health probes, the backend
\* select_backend returned for a chat-completions request is flagged healthy
\* at the moment that request issues its first network attempt.
C32_HealthyAtFirstAttempt ==
    [][\A r \in Reqs :
        (IssuesFirstAttempt(r) /\ reqs'[r].endpoint = "chat") =>
            /\ reqs'[r].backend \in DOMAIN health_status'
            /\ health_status'[reqs'[r].backend]
      ]_vars

\* a chat-completions request has its first attempt in flight while a probe
\* round is under way that has flagged another enabled backend unhealthy
C32_Witness ==
    \E r \in Reqs :
        /\ reqs[r].pc = "inflight" /\ reqs[r].endpoint = "chat"
        /\ reqs[r].attempts = 1
        /\ probe.pc = "probing"
        /\ \E n \in clients \ {reqs[r].backend} :
              /\ ~health_status[n]
              /\ ListsFuzzily(n, reqs[r].model)

\* C33: after check_health returns, its result has an entry for every
\* enabled backend, and each backend's flag (and the healthy field of its
\* entry) is true if and only if the probe call got a success response: a
\* probe answered with a 5xx status leaves the backend flagged unhealthy.
C33_ProbeFlagsFollowResponses ==
    probe.returned =>
        /\ DOMAIN probe.results = {n \in BackendNames : backends[n].enabled}
        /\ \A n \in DOMAIN probe.results :
              LET res == probe.results[n]
              IN  /\ res.healthy = health_status[n]
                  /\ health_status[n] = (res.kind = "response" /\ IsSuccess(res.code))

\* the step in which check_health gets the answer of a probe call
ProbeAnswered == probe.pc = "probing" /\ probe' # probe

\* C38: under any interleaving of forward_request calls and check_health
\* probes, a backend's flag is the outcome of the latest health-affecting
\* event: a step that handles a success response sets it to true, a step
\* that handles a 5xx status, a timeout or a connection failure sets it to
\* false, a step that handles a 4xx status and every step that is neither an
\* answered attempt nor an answered probe leave every flag as it was.
C38_FlagIsLatestOutcome ==
    [][/\ \A r \in Reqs :
            HandlesResponse(r) =>
                LET o == reqs'[r].outcome
                    b == reqs[r].backend
                IN  /\ (o.kind = "response" /\ IsSuccess(o.code)) =>
                          health_status' = SetHealth(b, TRUE)
                    /\ (\/ o.kind = "response" /\ o.code >= 500
                        \/ o.kind \in {"timeout", "connect_error"}) =>
                          health_status' = SetHealth(b, FALSE)
                    /\ (o.kind = "response" /\ o.code >= 400 /\ o.code < 500) =>
                          health_status' = health_status
       /\ (~ProbeAnswered /\ \A r \in Reqs : ~HandlesResponse(r)) =>
              health_status' = health_status
      ]_vars

\* a forward_request call to the backend has not returned yet: an attempt is
\* in flight or the call sleeps before its next attempt
CallInFlight(n) ==
    \E r \in Reqs : reqs[r].backend = n /\ reqs[r].pc \in {"inflight", "sleeping"}

\* C39: while a backend is flagged unhealthy and no forward_request call to
\* it is in flight, no step of a request on either POST route issues a
\* network call to it, and only an answered probe of check_health flags it
\* healthy again.
C39_UnhealthyBackendNotCalled ==
    [][\A n \in DOMAIN health_status :
        (~health_status[n] /\ ~CallInFlight(n)) =>
            /\ \A r \in Reqs :
                  ~(/\ reqs[r].pc # "inflight" /\ reqs'[r].pc = "inflight"
                    /\ reqs'[r].backend = n)
            /\ health_status'[n] => (ProbeAnswered /\ ClientOrder[probe.idx] = n)
      ]_vars

\* a request on the completions route has its first attempt in flight to
\* another backend than the one that lists its model exactly, which is
\* flagged unhealthy, while no probe round is under way
C39_Witness ==
    \E r \in Reqs :
        /\ reqs[r].pc = "inflight" /\ reqs[r].endpoint = "completions"
        /\ reqs[r].attempts = 1
        /\ probe.pc = "idle"
        /\ \E n \in DOMAIN health_status \ {reqs[r].backend} :
              /\ ~health_status[n] /\ ~CallInFlight(n)
              /\ ListsExactly(n, reqs[r].model)

(***************************************************************************)
(* Claims about the handlers.                                              *)
(***************************************************************************)
\* C9: on both routes a request for which select_backend finds no backend is
\* answered with HTTP 400, and no backend call is made for it.
C9_NoBackendIs400 ==
    \A r \in Reqs :
        (reqs[r].pc = "done" /\ reqs[r].selected /\ reqs[r].backend = "none")
        => reqs[r].status = 400 /\ reqs[r].attempts = 0

\* C10: a chat completions request with an empty model or an empty messages
\* list is answered with a 4xx status, and neither select_backend nor a
\* backend call happens for it.
C10_ValidationRejects ==
    \A r \in Reqs :
        (/\ reqs[r].endpoint = "chat"
         /\ reqs[r].pc \in {"inflight", "sleeping", "done"}
         /\ ~reqs[r].limited
         /\ (reqs[r].model = <<>> \/ reqs[r].messages = "empty"))
        => /\ ~reqs[r].selected
           /\ reqs[r].attempts = 0
           /\ reqs[r].pc = "done" /\ reqs[r].status >= 400 /\ reqs[r].status < 500

\* C11: on both routes, when the answer of the selected backend that ends the
\* forwarded request is a 4xx status, the reply to the client carries that
\* same status.
C11_ClientErrorPassedThrough ==
    \A r \in Reqs :
        (reqs[r].pc = "done" /\ Is4xx(reqs[r].outcome))
        => reqs[r].status = reqs[r].outcome.code

\* C25: on both routes a request that the rate limiter rejects is answered
\* 429 and neither select_backend nor a backend call happens for it; a
\* request for which select_backend was called had been admitted before.
C25_RejectedBeforeSelection ==
    \A r \in Reqs :
        /\ reqs[r].limited =>
              /\ reqs[r].pc = "done" /\ reqs[r].status = 429
              /\ ~reqs[r].selected /\ reqs[r].backend = "none"
              /\ reqs[r].attempts = 0
        /\ (reqs[r].selected /\ rlConfig.enabled) =>
              /\ rlLast.result
              /\ admitted[rlLast.client] # <<>>

\* a rejected request, answered 429 while an enabled backend is healthy and
\* an earlier request of the client was admitted
C25_Witness ==
    \E r \in Reqs :
        /\ reqs[r].limited /\ reqs[r].status = 429
        /\ ~rlLast.result /\ admitted[rlLast.client] # <<>>
        /\ \E n \in BackendNames : backends[n].enabled /\ Healthy(n)

(***************************************************************************)
(* More claims about the rate limiter.                                     *)
(***************************************************************************)
\* C18: in every reachable state of the rate limiter, while the clock
\* advances between the calls, no queue holds a timestamp more than 60
\* seconds older than the current time.
C18_NoStaleTimestamps ==
    \A c \in DOMAIN requests : \A i \in DOMAIN requests[c] :
        requests[c][i] >= now - WindowSeconds

\* q is the end of a
IsSuffix(q, a) ==
    /\ Len(q) <= Len(a)
    /\ q = SubSeq(a, Len(a) - Len(q) + 1, Len(a))

\* C34: a check_rate_limit call that returns False adds no timestamp to the
\* client's queue: apart from the expired entries dropped from its front the
\* queue is unchanged, no other queue changes, and at any time a queue holds
\* only timestamps of calls that were admitted.
C34_RejectedCallAddsNothing ==
    [][/\ (rlLast' # rlLast /\ ~rlLast'.result) =>
            LET c == rlLast'.client
            IN  /\ requests' = WithQueue(c, PopExpired(Queue(c), now - WindowSeconds))
                /\ admitted' = admitted
       /\ \A c \in DOMAIN requests' : IsSuffix(requests'[c], admitted'[c])
      ]_vars

\* a call was rejected some time after the client's latest admitted call, and
\* the queue still ends with that admitted call
C34_Witness ==
    /\ rlConfig.enabled /\ ~rlLast.result
    /\ Queue(rlLast.client) # <<>>
    /\ IsSuffix(Queue(rlLast.client), admitted[rlLast.client])
    /\ Queue(rlLast.client)[Len(Queue(rlLast.client))] < now
    /\ OverMinuteLimit(PopExpired(Queue(rlLast.client), now - WindowSeconds))

(***************************************************************************)
(* The rate limiter called from several threads.                           *)
(*                                                                         *)
(* A call reads time.time() before it takes self.lock, waits for the lock, *)
(* runs the body of its "with self.lock" block and releases the lock.      *)
(* SpecThreads interleaves the calls of Threads at these points, with the  *)
(* limiter enabled (a disabled limiter returns before it touches the lock  *)
(* or the map; clear_client reads no clock).                               *)
(***************************************************************************)
Threads == {1, 2}
ThreadOps == {"check_rate_limit", "get_remaining_requests", "get_reset_time",
              "clear_client"}

IdleThread == [pc |-> "idle", op |-> "none", client |-> "c1", current_time |-> 0]

\* the threads inside a "with self.lock" block
InCritical == {t \in Threads : threads[t].pc \in {"locked", "releasing"}}

\* a call starts: current_time = time.time(), then it waits for the lock
ThreadCall(t) ==
    /\ threads[t].pc = "idle"
    /\ rlConfig.enabled
    /\ \E op \in ThreadOps, c \in Clients :
          /\ op = "check_rate_limit" => TotalAdmitted < MaxAdmits
          /\ threads' = [threads EXCEPT ![t] =
                [pc |-> "waiting", op |-> op, client |-> c,
                 current_time |-> IF op = "clear_client" THEN 0 ELSE now]]
    /\ UNCHANGED <<rlVars, gwVars, mtVars, cmVars, cv, lock>>

\* threading.Lock: acquire returns only while no thread holds the lock
MayAcquireAlways == TRUE
MayAcquire == lock = 0

\* "with self.lock:" is entered
ThreadAcquire(t) ==
    /\ threads[t].pc = "waiting"
    /\ MayAcquire
    /\ lock' = t
    /\ threads' = [threads EXCEPT ![t].pc = "locked"]
    /\ UNCHANGED <<rlVars, gwVars, mtVars, cmVars, cv>>

\* the body of the with block of each of the four calls, with the
\* current_time the call read before it took the lock
ThreadBody(t) ==
    /\ threads[t].pc = "locked"
    /\ LET c == threads[t].client
           current_time == threads[t].current_time
           o == CheckOutcome(c, current_time)
       IN  CASE threads[t].op = "check_rate_limit" ->
                    /\ requests' = WithQueue(c, o.queue)
                    /\ admitted' = IF o.result
                                   THEN [admitted EXCEPT ![c] = Append(@, current_time)]
                                   ELSE admitted
                    /\ rlLast' = [client |-> c, result |-> o.result, why |-> o.why]
             [] threads[t].op = "get_remaining_requests" ->
                    /\ requests' = WithQueue(c, PopExpired(Queue(c),
                                                current_time - WindowSeconds))
                    /\ UNCHANGED <<admitted, rlLast>>
             [] threads[t].op = "get_reset_time" ->
                    /\ requests' = WithQueue(c, Queue(c))
                    /\ UNCHANGED <<admitted, rlLast>>
             [] threads[t].op = "clear_client" ->
                    /\ requests' = [k \in (DOMAIN requests) \ {c} |-> requests[k]]
                    /\ admitted' = [admitted EXCEPT ![c] = <<>>]
                    /\ UNCHANGED rlLast
    /\ threads' = [threads EXCEPT ![t].pc = "releasing"]
    /\ UNCHANGED <<rlConfig, now, gwVars, mtVars, cmVars, cv, lock>>

\* the with block is left: the lock is released and the call returns
ThreadRelease(t) ==
    /\ threads[t].pc = "releasing"
    /\ lock' = 0
    /\ threads' = [threads EXCEPT ![t] = IdleThread]
    /\ UNCHANGED <<rlVars, gwVars, mtVars, cmVars, cv>>

InitThreads ==
    /\ InitRateLimiter({c \in RLConfigs :
                            /\ c.enabled /\ c.requests_per_minute = MaxRpm
                            /\ c.burst_size \in {1, MaxBurst}})
    /\ threads = [t \in Threads |-> IdleThread]
    /\ lock = 0
    /\ NoGateway /\ NoMetrics /\ NoContext /\ NoTranslation

NextThreads ==
    \/ \E t \in Threads : ThreadCall(t)
    \/ \E t \in Threads : ThreadAcquire(t)
    \/ \E t \in Threads : ThreadBody(t)
    \/ \E t \in Threads : ThreadRelease(t)
    \/ now < MaxTickFrom /\ Tick

SpecThreads == InitThreads /\ [][NextThreads]_vars

\* client b has the same queue, or the same absence of one, before and after
\* the step
QueueUntouched(b) ==
    /\ b \in DOMAIN requests <=> b \in DOMAIN requests'
    /\ b \in DOMAIN requests => requests'[b] = requests[b]

\* C23: under any interleaving of check_rate_limit, get_remaining_requests,
\* get_reset_time and clear_client calls from several threads, at most one
\* thread at a time is inside a block that reads or changes the queue map,
\* every step that changes the map is taken by the thread that holds the
\* lock, and a call made for client A leaves the queue of every other client
\* as it was.
C23_CallsSerialized ==
    [][/\ Cardinality({t \in Threads :
                        threads'[t].pc \in {"locked", "releasing"}}) <= 1
       /\ \A t \in Threads :
            (threads[t].pc = "locked" /\ threads'[t].pc = "releasing") =>
                /\ lock = t
                /\ \A b \in Clients \ {threads[t].client} : QueueUntouched(b)
       /\ requests' # requests =>
            \E t \in Threads : threads[t].pc = "locked" /\ threads'[t].pc = "releasing"
      ]_vars

\* C31: under any interleaving of check_rate_limit calls from several
\* threads, every client's queue is in non-decreasing timestamp order in
\* every reachable state.
C31_QueuesInTimeOrder ==
    \A c \in DOMAIN requests :
        \A i \in 1..(Len(requests[c]) - 1) : requests[c][i] <= requests[c][i + 1]

\* a thread has just admitted a request of c1 and still holds the lock, the
\* other thread waits for the lock with a call for c2, and c2 has a queue
C23_Witness ==
    \E t \in Threads, u \in Threads :
        /\ threads[t].pc = "releasing" /\ threads[t].op = "check_rate_limit"
        /\ threads[t].client = "c1" /\ lock = t
        /\ rlLast.client = "c1" /\ rlLast.result
        /\ threads[u].pc = "waiting" /\ threads[u].client = "c2"
        /\ "c2" \in DOMAIN requests /\ requests["c2"] # <<>>
        /\ "c1" \in DOMAIN requests /\ requests["c1"] # <<>>

(***************************************************************************)
(* Metrics collector (src/src/services/metrics.py).                        *)
(*                                                                         *)
(* SpecMetrics is the collector alone: record_request calls with any       *)
(* backend, model and status, and a clock that never goes back.  The float *)
(* fields (response_time, avg_response_time) are left out; the list of     *)
(* samples is kept as runs of equal samples, so that a list of 10,000      *)
(* samples is one state.                                                   *)
(***************************************************************************)
SampleCap == 10000          \* len(self.requests) > 10000
RetentionSeconds == 86400   \* time.time() - 86400
SecondsPerHour == 3600      \* the hour of strftime("%Y-%m-%d-%H")

MaxRecords == 3             \* record_request calls made by the model
MaxHalfDays == 2            \* the clock advances by half days, this many times

HalfDay == RetentionSeconds \div 2

MetricBackends == {"", "x", "y"}
\* what a caller names: nothing (the middleware of main.py), a backend and a
\* model, or a backend only
MetricCallers == {[backend |-> "", model |-> ""], [backend |-> "x", model |-> "m"],
                  [backend |-> "y", model |-> ""]}
MetricStatuses == {200, 399, 400}

\* RequestMetric(timestamp, method, path, status_code, ..., backend, model)
Sample(t, status_code, backend, model) ==
    [timestamp |-> t, method |-> "POST", path |-> "/v1/chat/completions",
     status_code |-> status_code, backend |-> backend, model |-> model]

\* self.requests.append(metric)
AppendSample(list, metric) ==
    IF list # <<>> /\ list[Len(list)].sample = metric
    THEN [list EXCEPT ![Len(list)].n = @ + 1]
    ELSE Append(list, [sample |-> metric, n |-> 1])

\* len(self.requests)
RECURSIVE SampleCount(_)
SampleCount(list) ==
    IF list = <<>> THEN 0 ELSE list[1].n + SampleCount(Tail(list))

\* len(self.requests) > 10000
OverCap(list) == SampleCount(list) > SampleCap

\* [r for r in self.requests if r.timestamp > cutoff_time]
Retained(list, cutoff_time) ==
    SelectSeq(list, LAMBDA run : run.sample.timestamp > cutoff_time)

\* 200 <= status_code < 400
IsSuccessStatusLax(status_code) == 200 <= status_code /\ status_code <= 400
IsSuccessStatus(status_code) == 200 <= status_code /\ status_code < 400

\* the counters of a BackendMetric / of an hour, before the first request
ZeroCounters == [total_requests |-> 0, success_requests |-> 0, failed_requests |-> 0]

\* total_requests += 1 and success_requests += 1 or failed_requests += 1
Counted(counters, status_code) ==
    [counters EXCEPT
        !.total_requests = @ + 1,
        !.success_requests = IF IsSuccessStatus(status_code) THEN @ + 1 ELSE @,
        !.failed_requests = IF IsSuccessStatus(status_code) THEN @ ELSE @ + 1]

\* d[key] of a defaultdict after d[key] was (created and) set to val
WithKey(d, key, val) ==
    [k \in (DOMAIN d) \cup {key} |-> IF k = key THEN val ELSE d[k]]

\* BackendMetric(name=""): the entry a first access creates
NewBackendMetric ==
    [name |-> "", total_requests |-> 0, success_requests |-> 0,
     failed_requests |-> 0, last_request_time |-> 0, models_used |-> <<>>]

\* the "if backend:" block of record_request
BackendCounted(backend, model, status_code, t) ==
    LET old == IF backend \in DOMAIN backend_metrics
               THEN backend_metrics[backend] ELSE NewBackendMetric
        c == Counted([total_requests |-> old.total_requests,
                      success_requests |-> old.success_requests,
                      failed_requests |-> old.failed_requests], status_code)
    IN  [name |-> backend,
         total_requests |-> c.total_requests,
         success_requests |-> c.success_requests,
         failed_requests |-> c.failed_requests,
         last_request_time |-> t,
         models_used |->
            IF model = "" THEN old.models_used
            ELSE WithKey(old.models_used, model,
                    IF model \in DOMAIN old.models_used
                    THEN old.models_used[model] + 1 ELSE 1)]

\* the calls made by the model so far
RECURSIVE SumTotals(_, _)
SumTotals(f, S) ==
    IF S = {} THEN 0
    ELSE LET x == CHOOSE y \in S : TRUE IN f[x].total + SumTotals(f, S \ {x})

\* the body of record_request for the sample metric: the collector it leaves
AfterRecord(metric) ==
    LET appended == AppendSample(samples, metric)
        hour_key == metric.timestamp \div SecondsPerHour
    IN  [backend_metrics |->
            IF metric.backend # ""
            THEN WithKey(backend_metrics, metric.backend,
                         BackendCounted(metric.backend, metric.model,
                                        metric.status_code, metric.timestamp))
            ELSE backend_metrics,
         hourly_stats |->
            WithKey(hourly_stats, hour_key,
                    Counted(IF hour_key \in DOMAIN hourly_stats
                            THEN hourly_stats[hour_key] ELSE ZeroCounters,
                            metric.status_code)),
         samples |-> IF OverCap(appended)
                     THEN Retained(appended, now - RetentionSeconds)
                     ELSE appended]

\* history: one more call naming the backend, with this status
CallCounted(backend, status_code) ==
    [calls EXCEPT ![backend] =
        [total |-> @.total + 1,
         success |-> IF 200 <= status_code /\ status_code < 400
                     THEN @.success + 1 ELSE @.success]]

\* MetricsCollector.record_request(method, path, status_code, response_time,
\* backend, model)
RecordRequest(status_code, backend, model) ==
    /\ SumTotals(calls, MetricBackends) < MaxRecords
    /\ LET after == AfterRecord(Sample(now, status_code, backend, model))
       IN  /\ backend_metrics' = after.backend_metrics
           /\ hourly_stats' = after.hourly_stats
           /\ samples' = after.samples
    /\ calls' = CallCounted(backend, status_code)
    /\ UNCHANGED <<rlVars, gwVars, thVars, cmVars, cv>>

\* MetricsCollector.get_stats(): its backend_stats (the counters only)
BackendStats ==
    IF samples = <<>> THEN <<>>
    ELSE [name \in DOMAIN backend_metrics |->
            [total_requests |-> backend_metrics[name].total_requests,
             success_requests |-> backend_metrics[name].success_requests,
             failed_requests |-> backend_metrics[name].failed_requests]]

\* time passes between calls
MetricsTick ==
    /\ now + HalfDay <= MaxHalfDays * HalfDay
    /\ now' = now + HalfDay
    /\ UNCHANGED <<rlConfig, requests, admitted, rlLast, gwVars, extVars>>

\* the collector after n requests went through the middleware of main.py at
\* time 0, each answered 200: the middleware names no backend and no model
AfterMiddleware(n) ==
    /\ samples = IF n = 0 THEN <<>> ELSE <<[sample |-> Sample(0, 200, "", ""), n |-> n]>>
    /\ backend_metrics = <<>>
    /\ hourly_stats = IF n = 0 THEN <<>>
                      ELSE [h \in {0} |-> [total_requests |-> n, success_requests |-> n,
                                           failed_requests |-> 0]]

InitMetrics ==
    /\ \E n \in {0, SampleCap - 1} : AfterMiddleware(n)
    /\ calls = [b \in MetricBackends |-> [total |-> 0, success |-> 0]]
    /\ InitRateLimiter({c \in RLConfigs : ~c.enabled})
    /\ NoGateway /\ NoContext /\ NoTranslation /\ NoThreads

NextMetrics ==
    \/ \E status_code \in MetricStatuses, who \in MetricCallers :
          RecordRequest(status_code, who.backend, who.model)
    \/ MetricsTick

SpecMetrics == InitMetrics /\ [][NextMetrics]_vars

(***************************************************************************)
(* The gateway with its metrics: the log_requests middleware of main.py    *)
(* wraps every route and records the reply of each request.  SpecMetered   *)
(* runs one request at a time through a handler and the middleware, with   *)
(* every backend enabled.                                                  *)
(***************************************************************************)
MaxLogged == 2      \* requests that go through the middleware

\* str(request.url.path)
PathOf(endpoint) ==
    IF endpoint = "chat" THEN "/v1/chat/completions" ELSE "/v1/completions"

\* log_requests after call_next returned: record_request(method, path,
\* status_code, response_time), backend and model left to their defaults;
\* the request is over
LogRequests(r) ==
    /\ reqs[r].pc = "done"
    /\ LET backend == ""
           model == ""
           metric == [Sample(now, reqs[r].status, backend, model)
                        EXCEPT !.path = PathOf(reqs[r].endpoint)]
           after == AfterRecord(metric)
       IN  /\ backend_metrics' = after.backend_metrics
           /\ hourly_stats' = after.hourly_stats
           /\ samples' = after.samples
           /\ calls' = CallCounted(backend, reqs[r].status)
    /\ reqs' = [reqs EXCEPT ![r] = IdleReq]
    /\ UNCHANGED <<rlVars, backends, clients, health_status, probe, lastSelect,
                   cmVars, cv, thVars>>

MeteredConfigs == {c \in HealthConfigs : \A n \in BackendNames : c[n].enabled}

InitMetered ==
    /\ InitRateLimiter({c \in RLConfigs :
                            c.requests_per_minute = 1 /\ c.burst_size = 1})
    /\ backends \in MeteredConfigs
    /\ InitBackendManager
    /\ reqs = [r \in Reqs |-> IdleReq]
    /\ AfterMiddleware(0)
    /\ calls = [b \in MetricBackends |-> [total |-> 0, success |-> 0]]
    /\ NoContext /\ NoTranslation /\ NoThreads

NextMetered ==
    \/ \E r \in Reqs :
          reqs[r].pc = "idle" /\ calls[""].total < MaxLogged /\ ReqArrive(r)
    \/ \E r \in Reqs : ReqHandle(r)
    \/ \E r \in Reqs : ReqResponse(r)
    \/ \E r \in Reqs : ReqWake(r)
    \/ \E r \in Reqs : LogRequests(r)

SpecMetered == InitMetered /\ [][NextMetered]_vars

\* C26: when the reply of a request that was forwarded to a backend has gone
\* through the middleware, the collector holds a sample that names that
\* backend and a model, and the backend has an aggregate that counts the
\* request.
C26_ForwardedRequestsNameTheirBackend ==
    [][\A r \in Reqs :
        (reqs[r].pc = "done" /\ reqs'[r].pc = "idle" /\ reqs[r].attempts > 0) =>
            /\ \E i \in DOMAIN samples' :
                  /\ samples'[i].sample.backend = reqs[r].backend
                  /\ samples'[i].sample.model # ""
            /\ reqs[r].backend \in DOMAIN backend_metrics'
            /\ backend_metrics'[reqs[r].backend].total_requests >= 1
      ]_vars

(***************************************************************************)
(* Claims about the metrics collector.                                     *)
(***************************************************************************)
\* C16: after any sequence of record_request calls, for every backend named
\* in at least one call, get_stats reports total_requests = the number of
\* calls naming it, success_requests = the number of those with
\* 200 <= status < 400, failed_requests = the rest, and total = success +
\* failed.
C16_BackendCounters ==
    \A b \in MetricBackends \ {""} :
        calls[b].total > 0 =>
            /\ b \in DOMAIN BackendStats
            /\ BackendStats[b].total_requests = calls[b].total
            /\ BackendStats[b].success_requests = calls[b].success
            /\ BackendStats[b].failed_requests = calls[b].total - calls[b].success
            /\ BackendStats[b].total_requests
                 = BackendStats[b].success_requests + BackendStats[b].failed_requests

\* three calls named one backend, two with a success status and one with 400
C16_Witness ==
    /\ "x" \in DOMAIN backend_metrics
    /\ calls["x"] = [total |-> 3, success |-> 2]
    /\ backend_metrics["x"].failed_requests = 1
    /\ \E i \in DOMAIN samples : samples[i].sample.status_code = 400

\* C17: after every record_request call the number of retained samples is at
\* most 10,000, whatever the arrival pattern.
C17_SampleCap == SampleCount(samples) <= SampleCap

(***************************************************************************)
(* Request and response translation (src/src/services/backend_manager.py). *)
(*                                                                         *)
(* A JSON value is a record [t, v]: t is its Python type after json        *)
(* decoding, v its content.  A string is a sequence of pieces, so that     *)
(* joining strings is concatenation; an object is a function from keys.    *)
(* A translation ends with [raised, val]: the exception it raised ("none"  *)
(* when it returned) and the value it returned.                            *)
(***************************************************************************)
Null == [t |-> "null", v |-> 0]
Str(s) == [t |-> "str", v |-> s]
Num(n) == [t |-> "num", v |-> n]
List(s) == [t |-> "list", v |-> s]
Obj(f) == [t |-> "obj", v |-> f]
NoKeys == [k \in {} |-> Null]
Text(piece) == Str(<<piece>>)

Returned(val) == [raised |-> "none", val |-> val]
Raises(exception) == [raised |-> exception, val |-> Null]

\* d.get(key, default) on a dict d
Get(d, key, default) == IF key \in DOMAIN d.v THEN d.v[key] ELSE default

\* "if x:" on a decoded JSON value
Truthy(x) ==
    CASE x.t = "null" -> FALSE
      [] x.t = "num" -> x.v # 0
      [] x.t = "obj" -> DOMAIN x.v # {}
      [] OTHER -> x.v # <<>>

\* "\n".join(strings): TypeError when an item is not a string
RECURSIVE JoinLines(_)
JoinLines(items) ==
    IF items = <<>> THEN Returned(Str(<<>>))
    ELSE IF items[1].t # "str" THEN Raises("TypeError")
    ELSE IF Len(items) = 1 THEN Returned(items[1])
    ELSE LET rest == JoinLines(Tail(items))
         IN  IF rest.raised # "none" THEN rest
             ELSE Returned(Str(items[1].v \o <<"\n">> \o rest.val.v))

\* the loop of _convert_to_claude_format over the messages: system contents
\* on one side, the other messages on the other
RECURSIVE SplitSystem(_, _, _)
SplitSystem(messages, system_messages, conversation_messages) ==
    IF messages = <<>>
    THEN [raised |-> "none", system |-> system_messages,
          conversation |-> conversation_messages]
    ELSE LET msg == messages[1]
         IN  IF msg.t # "obj"
             THEN [raised |-> "AttributeError", system |-> <<>>, conversation |-> <<>>]
             ELSE IF Get(msg, "role", Null) = Text("system")
             THEN IF "content" \notin DOMAIN msg.v
                  THEN [raised |-> "KeyError", system |-> <<>>, conversation |-> <<>>]
                  ELSE SplitSystem(Tail(messages),
                                   Append(system_messages, msg.v["content"]),
                                   conversation_messages)
             ELSE SplitSystem(Tail(messages), system_messages,
                              Append(conversation_messages, msg))

\* the keys of request_data copied as they are
PassedOn(request_data, keys) ==
    [k \in keys \cap DOMAIN request_data.v |-> request_data.v[k]]

\* BackendManager._convert_to_claude_format(request_data)
ConvertToClaudeFormat(request_data) ==
    LET messages == Get(request_data, "messages", List(<<>>))
    IN  IF messages.t # "list" THEN Raises("TypeError")
        ELSE
        LET split == SplitSystem(messages.v, <<>>, <<>>)
            joined == JoinLines(split.system)
        IN  IF split.raised # "none" THEN Raises(split.raised)
            ELSE IF split.system # <<>> /\ joined.raised # "none"
            THEN Raises(joined.raised)
            ELSE Returned(Obj(
                    [model |-> Get(request_data, "model",
                                   Text("claude-3-sonnet-20240229")),
                     max_tokens |-> Get(request_data, "max_tokens", Num(1000)),
                     messages |-> List(split.conversation)]
                    @@ (IF split.system # <<>>
                        THEN [system |-> joined.val] ELSE NoKeys)
                    @@ PassedOn(request_data, {"temperature", "top_p", "stream"})))

\* "user" if msg.get("role") in ["user", "system"] else "model"
GeminiRole(role) ==
    IF role \in {Text("user"), Text("system")} THEN "user" ELSE "model"

\* the loop of _convert_to_gemini_format over the messages
RECURSIVE GeminiContents(_)
GeminiContents(messages) ==
    IF messages = <<>> THEN Returned(List(<<>>))
    ELSE LET msg == messages[1]
             rest == GeminiContents(Tail(messages))
         IN  IF msg.t # "obj" THEN Raises("AttributeError")
             ELSE IF "content" \notin DOMAIN msg.v THEN Raises("KeyError")
             ELSE IF rest.raised # "none" THEN rest
             ELSE Returned(List(
                    <<Obj([role |-> Text(GeminiRole(Get(msg, "role", Null))),
                           parts |-> List(<<Obj([text |-> msg.v["content"]])>>)])>>
                    \o rest.val.v))

\* BackendManager._convert_to_gemini_format(request_data); the defaults 1.0
\* of temperature and topP are written 1
ConvertToGeminiFormat(request_data) ==
    LET messages == Get(request_data, "messages", List(<<>>))
        contents == GeminiContents(messages.v)
    IN  IF messages.t # "list" THEN Raises("TypeError")
        ELSE IF contents.raised # "none" THEN contents
        ELSE Returned(Obj(
                [contents |-> contents.val,
                 generationConfig |-> Obj(
                    [maxOutputTokens |-> Get(request_data, "max_tokens", Num(1000)),
                     temperature |-> Get(request_data, "temperature", Num(1)),
                     topP |-> Get(request_data, "top_p", Num(1))])]))

\* BackendManager._convert_request(backend_name, request_data)
ConvertRequest(backend_name, request_data) ==
    IF backend_name = "claude" THEN ConvertToClaudeFormat(request_data)
    ELSE IF backend_name = "gemini" THEN ConvertToGeminiFormat(request_data)
    ELSE Returned(request_data)

\* the unified response both response translations build
Unified(id, created, model, text_content, finish_reason, usage) ==
    Obj([id |-> id, object |-> Text("chat.completion"), created |-> Num(created),
         model |-> model,
         choices |-> List(<<Obj(
            [index |-> Num(0),
             message |-> Obj([role |-> Text("assistant"), content |-> text_content]),
             finish_reason |-> finish_reason])>>),
         usage |-> usage])

\* BackendManager._convert_from_claude_format(response_data), at time created
ConvertFromClaudeFormatStop(response_data, created) ==
    LET content == Get(response_data, "content", List(<<>>))
        first_is_read == Truthy(content) /\ content.t = "list"
    IN  IF first_is_read /\ content.v[1].t # "obj" THEN Raises("AttributeError")
        ELSE Returned(Unified(
                Get(response_data, "id", Str(<<>>)),
                created,
                Get(response_data, "model", Str(<<>>)),
                IF first_is_read THEN Get(content.v[1], "text", Str(<<>>))
                ELSE Str(<<>>),
                Text("stop"),
                Get(response_data, "usage", Obj(NoKeys))))
ConvertFromClaudeFormat(response_data, created) ==
    LET content == Get(response_data, "content", List(<<>>))
        first_is_read == Truthy(content) /\ content.t = "list"
    IN  IF first_is_read /\ content.v[1].t # "obj" THEN Raises("AttributeError")
        ELSE Returned(Unified(
                Get(response_data, "id", Str(<<>>)),
                created,
                Get(response_data, "model", Str(<<>>)),
                IF first_is_read THEN Get(content.v[1], "text", Str(<<>>))
                ELSE Str(<<>>),
                Get(response_data, "stop_reason", Text("stop")),
                Get(response_data, "usage", Obj(NoKeys))))

ZeroUsage ==
    Obj([prompt_tokens |-> Num(0), completion_tokens |-> Num(0),
         total_tokens |-> Num(0)])

\* BackendManager._convert_from_gemini_format(response_data), at time created
ConvertFromGeminiFormat(response_data, created) ==
    LET candidates == Get(response_data, "candidates", List(<<>>))
        first == candidates.v[1]
        content == Get(first, "content", Obj(NoKeys))
        parts == Get(content, "parts", List(<<>>))
        unified(text_content) ==
            Returned(Unified(Str(<<"gemini-", ToString(created)>>), created,
                             Text("gemini-pro"), text_content, Text("stop"),
                             ZeroUsage))
    IN  IF ~Truthy(candidates) THEN unified(Str(<<>>))
        ELSE IF first.t # "obj" \/ content.t # "obj" THEN Raises("AttributeError")
        ELSE IF ~Truthy(parts) THEN unified(Str(<<>>))
        ELSE IF parts.v[1].t # "obj" THEN Raises("AttributeError")
        ELSE unified(Get(parts.v[1], "text", Str(<<>>)))

\* BackendManager._convert_response(backend_name, response_data)
ConvertResponse(backend_name, response_data, created) ==
    IF backend_name = "claude" THEN ConvertFromClaudeFormat(response_data, created)
    ELSE IF backend_name = "gemini"
    THEN ConvertFromGeminiFormat(response_data, created)
    ELSE Returned(response_data)

(***************************************************************************)
(* SpecTranslate applies the two translations to every request and         *)
(* response of the sets below, for every backend name, at any time.        *)
(***************************************************************************)
MaxMessages == 2    \* the messages list of a request holds up to MaxMessages

Restrict(f, keys) == [k \in keys |-> f[k]]

\* a message: any part of {role, content}, or something that is not an object
MessageRoles == {"system", "user", "assistant"}
SomeMessages ==
    {Obj(Restrict([role |-> Text(r), content |-> Text(c)], keys)) :
        r \in MessageRoles, c \in {"a", "b"}, keys \in SUBSET {"role", "content"}}
    \cup {Text("a")}

MessageListsUpTo(n) == UNION {[1..k -> SomeMessages] : k \in 0..n}

\* a request body: any part of {model, max_tokens, temperature, messages},
\* the messages a list or null
SomeRequests ==
    {Obj(Restrict([model |-> Text("m"), max_tokens |-> Num(5),
                   temperature |-> Num(2), messages |-> ml], keys)) :
        ml \in {List(l) : l \in MessageListsUpTo(MaxMessages)} \cup {Null},
        keys \in SUBSET {"model", "max_tokens", "temperature", "messages"}}

\* the Messages API answer of family B: any part of its keys, with several
\* shapes of content
ClaudeContents ==
    {Null, Text("hello"), List(<<>>), List(<<Text("hello")>>),
     List(<<Obj([type |-> Text("text"), text |-> Text("hello")])>>),
     List(<<Obj([type |-> Text("tool_use")])>>),
     List(<<Obj([type |-> Text("text"), text |-> Text("bye")]),
            Obj([type |-> Text("text"), text |-> Text("hello")])>>)}
ClaudeStopReasons == {"end_turn", "max_tokens"}
ClaudeKeys == {"id", "model", "content", "stop_reason", "usage"}
ClaudeAnswer(content) ==
    [id |-> Text("msg_1"), model |-> Text("claude-3"), content |-> content,
     stop_reason |-> Text("end_turn"),
     usage |-> Obj([input_tokens |-> Num(3), output_tokens |-> Num(4)])]
ClaudeResponses ==
    {Obj(Restrict([ClaudeAnswer(c) EXCEPT !.stop_reason = Text(s)], keys)) :
        c \in ClaudeContents, s \in ClaudeStopReasons, keys \in SUBSET ClaudeKeys}

\* the generateContent answer of family C
GeminiParts ==
    {List(<<>>), List(<<Obj([text |-> Text("hello")])>>), List(<<Obj(NoKeys)>>),
     List(<<Text("hello")>>)}
GeminiCandidates ==
    {Text("hello"), Obj([finishReason |-> Text("SAFETY")]),
     Obj([finishReason |-> Text("STOP"), content |-> Null]),
     Obj([finishReason |-> Text("STOP"), content |-> Obj(NoKeys)])}
    \cup {Obj([finishReason |-> Text("STOP"),
               content |-> Obj([role |-> Text("model"), parts |-> parts])]) :
            parts \in GeminiParts}
GeminiUsage ==
    [usageMetadata |-> Obj([promptTokenCount |-> Num(3),
                            candidatesTokenCount |-> Num(4),
                            totalTokenCount |-> Num(7)])]
GeminiResponses ==
    {Obj(NoKeys), Obj([candidates |-> Null]), Obj([candidates |-> List(<<>>)])}
    \cup {Obj([candidates |-> List(<<c>>)] @@ usage) :
            c \in GeminiCandidates, usage \in {NoKeys, GeminiUsage}}

\* the chat completion answer of family A: any part of its keys
OpenAIKeys == {"id", "object", "created", "model", "choices", "usage"}
OpenAIAnswer ==
    [id |-> Text("chatcmpl-1"), object |-> Text("chat.completion"),
     created |-> Num(1), model |-> Text("gpt"),
     choices |-> List(<<Obj(
        [index |-> Num(0),
         message |-> Obj([role |-> Text("assistant"), content |-> Text("hello")]),
         finish_reason |-> Text("stop")])>>),
     usage |-> Obj([prompt_tokens |-> Num(3), completion_tokens |-> Num(4),
                    total_tokens |-> Num(7)])]
OpenAIResponses == {Obj(Restrict(OpenAIAnswer, keys)) : keys \in SUBSET OpenAIKeys}

SomeResponses == ClaudeResponses \cup GeminiResponses \cup OpenAIResponses

\* forward_request translates the request before its first attempt
TranslateRequest ==
    /\ cv.op = "request" /\ ~cv.done
    /\ cv' = [cv EXCEPT !.done = TRUE,
                        !.result = ConvertRequest(cv.backend, cv.input)]
    /\ UNCHANGED <<rlVars, gwVars, thVars, mtVars, cmVars>>

\* forward_request translates the body of a 2xx answer
TranslateResponse ==
    /\ cv.op = "response" /\ ~cv.done
    /\ cv' = [cv EXCEPT !.done = TRUE,
                        !.result = ConvertResponse(cv.backend, cv.input, now)]
    /\ UNCHANGED <<rlVars, gwVars, thVars, mtVars, cmVars>>

\* a translation is about to be made: of any request or any response, for
\* any backend name
InitTranslate ==
    /\ cv \in [op : {"request"}, backend : BackendNames, input : SomeRequests,
               done : {FALSE}, result : {Returned(Null)}]
              \cup [op : {"response"}, backend : BackendNames,
                    input : SomeResponses, done : {FALSE}, result : {Returned(Null)}]
    /\ InitRateLimiter({c \in RLConfigs : ~c.enabled})
    /\ NoGateway /\ NoMetrics /\ NoContext /\ NoThreads

NextTranslate ==
    \/ TranslateRequest
    \/ TranslateResponse
    \/ Tick

SpecTranslate == InitTranslate /\ [][NextTranslate]_vars

(***************************************************************************)
(* Claims about the translations.                                          *)
(***************************************************************************)
\* choices[0].message.content of a unified response
UnifiedContent(response) == response.v["choices"].v[1].v["message"].v["content"]

\* C19: for every backend and every request or response shape (messages
\* without a content field, no content blocks, no candidates, blocks that
\* are not objects), the translation returns without raising, and a
\* translated response carries a string as its content: the text the backend
\* gave or the empty string.
C19_TranslationTotal ==
    cv.done =>
        /\ cv.result.raised = "none"
        /\ (cv.op = "response" /\ cv.backend \in {"claude", "gemini"})
            => UnifiedContent(cv.result.val).t = "str"

\* the answers the three APIs document for a success: every key present and
\* a first text block (part) in the content
NativeResponses(backend_name) ==
    IF backend_name = "claude"
    THEN {Obj(ClaudeAnswer(
            List(<<Obj([type |-> Text("text"), text |-> Text("hello")])>>)))}
    ELSE IF backend_name = "gemini"
    THEN {Obj([candidates |-> List(<<Obj(
                [finishReason |-> Text("STOP"),
                 content |-> Obj([role |-> Text("model"),
                                  parts |-> List(<<Obj([text |-> Text("hello")])>>)])]
                )>>)] @@ usage) : usage \in {NoKeys, GeminiUsage}}
    ELSE {Obj(OpenAIAnswer)}

\* C20: for every backend and every native success response, the unified
\* response holds id, object, created, model, choices[0].message.content,
\* choices[0].finish_reason and a usage block with prompt_tokens,
\* completion_tokens and total_tokens.
C20_UnifiedResponseComplete ==
    (cv.op = "response" /\ cv.done /\ cv.input \in NativeResponses(cv.backend)) =>
        /\ cv.result.raised = "none"
        /\ LET out == cv.result.val
           IN  /\ {"id", "object", "created", "model", "choices", "usage"}
                     \subseteq DOMAIN out.v
               /\ out.v["choices"].t = "list" /\ out.v["choices"].v # <<>>
               /\ LET choice == out.v["choices"].v[1]
                  IN  /\ "finish_reason" \in DOMAIN choice.v
                      /\ "message" \in DOMAIN choice.v
                      /\ "content" \in DOMAIN choice.v["message"].v
               /\ out.v["usage"].t = "obj"
               /\ {"prompt_tokens", "completion_tokens", "total_tokens"}
                     \subseteq DOMAIN out.v["usage"].v

\* C28: in a family C request translation that returns, the contents list has
\* one entry per message, in the order of the messages and with their
\* texts; the entry of a message with role "user" has role "user" and the
\* entry of a message with any other role (assistant, system, none) has role
\* "model".
C28_GeminiRoles ==
    (cv.op = "request" /\ cv.backend = "gemini" /\ cv.done
        /\ cv.result.raised = "none") =>
        LET messages == Get(cv.input, "messages", List(<<>>)).v
            contents == cv.result.val.v["contents"].v
        IN  /\ Len(contents) = Len(messages)
            /\ \A i \in DOMAIN messages :
                  /\ contents[i].v["parts"].v[1].v["text"] = messages[i].v["content"]
                  /\ contents[i].v["role"] =
                        IF Get(messages[i], "role", Null) = Text("user")
                        THEN Text("user") ELSE Text("model")

\* the response has content blocks and the first one is an object with a text
HasFirstText(response_data) ==
    /\ "content" \in DOMAIN response_data.v
    /\ response_data.v["content"].t = "list"
    /\ response_data.v["content"].v # <<>>
    /\ response_data.v["content"].v[1].t = "obj"
    /\ "text" \in DOMAIN response_data.v["content"].v[1].v

\* choices[0].finish_reason of a unified response
UnifiedFinishReason(response) == response.v["choices"].v[1].v["finish_reason"]

\* C21: for every family B response whose first content block has text c and
\* whose stop reason is s, the unified response has choices[0].message.content
\* = c and finish_reason = s; when the response has no stop reason,
\* finish_reason is "stop".
C21_ClaudeContentAndStopReason ==
    (cv.op = "response" /\ cv.backend = "claude" /\ cv.done
        /\ HasFirstText(cv.input)) =>
        /\ cv.result.raised = "none"
        /\ UnifiedContent(cv.result.val) = cv.input.v["content"].v[1].v["text"]
        /\ UnifiedFinishReason(cv.result.val) =
                IF "stop_reason" \in DOMAIN cv.input.v
                THEN cv.input.v["stop_reason"] ELSE Text("stop")

\* the case of the specification: content "hello", stop reason "end_turn"
C21_Witness ==
    /\ cv.op = "response" /\ cv.backend = "claude" /\ cv.done
    /\ HasFirstText(cv.input)
    /\ cv.input.v["content"].v[1].v["text"] = Text("hello")
    /\ "stop_reason" \in DOMAIN cv.input.v
    /\ cv.input.v["stop_reason"] = Text("end_turn")
    /\ UnifiedContent(cv.result.val) = Text("hello")
    /\ UnifiedFinishReason(cv.result.val) = Text("end_turn")

(***************************************************************************)
(* Context manager (src/src/services/context_manager.py).                  *)
(*                                                                         *)
(* The coroutines of ContextManager await nothing but each other, so each  *)
(* call runs to its end without another one in between: one action per     *)
(* call.  A Session is an object: heap holds every object created, by      *)
(* number, and sessions lists the objects the map holds, in the order of   *)
(* their insertion (the order a dict is iterated and sorted in).  A caller *)
(* may keep any object it was given and pass it to add_message later.      *)
(***************************************************************************)
ExtraRemoved == 5           \* len(self.sessions) - self.max_sessions + 5
SecondsPerMinute == 60      \* session_timeout_minutes * 60

MaxClients == 2             \* distinct clients
MaxObjects == 2             \* Session objects created
MaxAppends == 3             \* messages appended since the sessions were last empty

\* a client is an address and an agent string, both sequences of characters
CMClients == {[ip |-> <<ToString(k)>>, user_agent |-> <<>>] : k \in 1..MaxClients}

\* ContextManager.generate_session_id: "session_" and the first 12 hex digits
\* of the md5 of "ip:user_agent"; the digest is kept as the string it was
\* computed from, which makes it free of collisions
GenerateSessionId(client_ip, user_agent) ==
    <<"session_">> \o client_ip \o <<":">> \o user_agent

SessionIds == {GenerateSessionId(c.ip, c.user_agent) : c \in CMClients}

CMRoles == {"user", "assistant"}
CMContents == {"hi"}

\* the places of the map that hold an object with this id
PlacesOfNone(map, session_id) == {}
PlacesOf(map, session_id) ==
    {i \in DOMAIN map : heap[map[i]].session_id = session_id}

\* del self.sessions[session_id], for the object at place i
Without(map, i) == SubSeq(map, 1, i - 1) \o SubSeq(map, i + 1, Len(map))

\* current_time - session.last_activity > self.session_timeout
IsExpiredNever(oid, current_time) == FALSE
IsExpiredLax(oid, current_time) ==
    current_time - heap[oid].last_activity >= cmConfig.session_timeout
IsExpired(oid, current_time) ==
    current_time - heap[oid].last_activity > cmConfig.session_timeout

\* ContextManager._cleanup_expired_sessions(): the map it leaves
CleanupExpiredSessions(map, current_time) ==
    SelectSeq(map, LAMBDA oid : ~IsExpired(oid, current_time))

\* sorted(self.sessions.items(), key=lambda x: x[1].last_activity): a stable
\* sort, over the heap h
RECURSIVE InsertByActivity(_, _, _)
InsertByActivity(sorted, oid, h) ==
    IF sorted = <<>> THEN <<oid>>
    ELSE IF h[sorted[Len(sorted)]].last_activity <= h[oid].last_activity
    THEN Append(sorted, oid)
    ELSE Append(InsertByActivity(SubSeq(sorted, 1, Len(sorted) - 1), oid, h),
                sorted[Len(sorted)])

RECURSIVE SortedByActivity(_, _)
SortedByActivity(map, h) ==
    IF map = <<>> THEN <<>>
    ELSE InsertByActivity(SortedByActivity(SubSeq(map, 1, Len(map) - 1), h),
                          map[Len(map)], h)

\* ContextManager._remove_oldest_sessions(): the map it leaves and the
\* exception it ends with; sorted_sessions[i] raises IndexError once every
\* session is deleted and the loop has passes left
RemoveNoSessions(map, h) == [map |-> map, raised |-> "none"]
RemoveOldestSessions(map, h) ==
    IF Len(map) <= cmConfig.max_sessions
    THEN [map |-> map, raised |-> "none"]
    ELSE LET sorted_sessions == SortedByActivity(map, h)
             sessions_to_remove == Len(map) - cmConfig.max_sessions + ExtraRemoved
             removed == {sorted_sessions[i] :
                            i \in 1..sessions_to_remove \cap DOMAIN sorted_sessions}
         IN  [map |-> SelectSeq(map, LAMBDA oid : oid \notin removed),
              raised |-> IF sessions_to_remove > Len(sorted_sessions)
                         THEN "IndexError" ELSE "none"]

\* history of the last call: the client a get_or_create_session was called
\* for, whether it swept, the map right after its sweep and how many sessions
\* the sweep removed, whether it evicted, the object it returned (or had
\* created when it raised) and the exception it ended with
NoCMCall ==
    [client |-> [ip |-> <<>>, user_agent |-> <<>>],
     swept |-> FALSE, removed |-> 0, after |-> <<>>, evicted |-> FALSE,
     oid |-> 0, raised |-> "none"]

\* Session(session_id, messages=[], created_at, last_activity, client_info);
\* appended is history: what add_message appended since messages was last []
NewSession(session_id, current_time, client_ip, user_agent) ==
    [session_id |-> session_id, messages |-> <<>>, created_at |-> current_time,
     last_activity |-> current_time,
     client_info |-> [ip |-> client_ip, user_agent |-> user_agent],
     appended |-> <<>>]

\* ContextManager.get_or_create_session(client_ip, user_agent)
GetOrCreateSession(client_ip, user_agent) ==
    LET session_id == GenerateSessionId(client_ip, user_agent)
        current_time == now
        sweeps == current_time - last_cleanup > cmConfig.cleanup_interval
        swept == IF sweeps THEN CleanupExpiredSessions(sessions, current_time)
                 ELSE sessions
        found == PlacesOf(swept, session_id)
        call == [client |-> [ip |-> client_ip, user_agent |-> user_agent],
                 swept |-> sweeps, removed |-> Len(sessions) - Len(swept),
                 after |-> IF sweeps THEN swept ELSE <<>>,
                 evicted |-> FALSE, oid |-> 0, raised |-> "none"]
    IN  /\ last_cleanup' = IF sweeps THEN current_time ELSE last_cleanup
        /\ IF found # {}
           THEN LET oid == swept[CHOOSE i \in found : TRUE]
                IN  /\ heap' = [heap EXCEPT ![oid].last_activity = current_time]
                    /\ sessions' = swept
                    /\ cmLast' = [call EXCEPT !.oid = oid]
           ELSE LET oid == Len(heap) + 1
                    created == Append(heap, NewSession(session_id, current_time,
                                                       client_ip, user_agent))
                    stored == Append(swept, oid)
                    evicts == Len(stored) > cmConfig.max_sessions
                    left == RemoveOldestSessions(stored, created)
                IN  /\ Len(heap) < MaxObjects
                    /\ heap' = created
                    /\ sessions' = IF evicts THEN left.map ELSE stored
                    /\ cmLast' = [call EXCEPT !.oid = oid, !.evicted = evicts,
                                    !.raised = IF evicts THEN left.raised ELSE "none"]
        /\ UNCHANGED <<rlVars, gwVars, thVars, mtVars, cmConfig, cv>>

\* session.messages[-self.max_context_messages:]; a[-0:] is all of a
LastMessagesOff(messages, n) ==
    SubSeq(messages, 1, IF n < Len(messages) THEN n ELSE Len(messages))
LastMessages(messages, n) ==
    IF n = 0 \/ n >= Len(messages) THEN messages
    ELSE SubSeq(messages, Len(messages) - n + 1, Len(messages))

RECURSIVE TotalAppended(_)
TotalAppended(h) ==
    IF h = <<>> THEN 0 ELSE Len(h[1].appended) + TotalAppended(Tail(h))

\* ContextManager.add_message(session, role, content), on the object oid
AddMessage(oid, role, content) ==
    LET message == [role |-> role, content |-> content, timestamp |-> now]
        longer == Append(heap[oid].messages, message)
    IN  /\ heap' = [heap EXCEPT
                ![oid].messages =
                    IF Len(longer) > cmConfig.max_context_messages
                    THEN LastMessages(longer, cmConfig.max_context_messages)
                    ELSE longer,
                ![oid].last_activity = now,
                ![oid].appended = Append(@, message)]
        /\ cmLast' = NoCMCall
        /\ UNCHANGED <<rlVars, gwVars, thVars, mtVars, cmConfig, sessions, last_cleanup, cv>>

\* ContextManager.clear_session(session_id), for a session the map holds
ClearSession(session_id) ==
    /\ PlacesOf(sessions, session_id) # {}
    /\ LET oid == sessions[CHOOSE i \in PlacesOf(sessions, session_id) : TRUE]
       IN  /\ heap' = [heap EXCEPT ![oid].messages = <<>>, ![oid].appended = <<>>]
           /\ cmLast' = NoCMCall
    /\ UNCHANGED <<rlVars, gwVars, thVars, mtVars, cmConfig, sessions, last_cleanup, cv>>

\* ContextManager.delete_session(session_id), for a session the map holds
DeleteSession(session_id) ==
    /\ PlacesOf(sessions, session_id) # {}
    /\ LET i == CHOOSE j \in PlacesOf(sessions, session_id) : TRUE
       IN  /\ sessions' = Without(sessions, i)
           /\ cmLast' = NoCMCall
    /\ UNCHANGED <<rlVars, gwVars, thVars, mtVars, cmConfig, heap, last_cleanup, cv>>

\* time passes between calls: by the session timeout exactly, or by a second
\* more
CMTickSteps == {SecondsPerMinute, SecondsPerMinute + 1}
CMTick ==
    /\ \E d \in CMTickSteps : now + d <= MaxTime /\ now' = now + d
    /\ UNCHANGED <<rlConfig, requests, admitted, rlLast, gwVars, extVars>>

\* the configurations tried: ContextManager(max_context_messages,
\* session_timeout_minutes, max_sessions, cleanup_interval_minutes)
MaxContext == 2             \* max_context_messages is drawn from 0..MaxContext
MaxSessions == 2            \* max_sessions is drawn from 1..MaxSessions
SessionConfigs ==
    [max_context_messages : {1},
     session_timeout : {1 * SecondsPerMinute},
     max_sessions : 1..MaxSessions,
     cleanup_interval : {0 * SecondsPerMinute, 1 * SecondsPerMinute,
                         2 * SecondsPerMinute}]
MessageConfigs ==
    [max_context_messages : 0..MaxContext,
     session_timeout : {1 * SecondsPerMinute},
     max_sessions : {MaxSessions},
     cleanup_interval : {1 * SecondsPerMinute}]

\* ContextManager.__init__
InitContextManager(configs) ==
    /\ InitRateLimiter({c \in RLConfigs : ~c.enabled})
    /\ cmConfig \in configs
    /\ heap = <<>> /\ sessions = <<>>
    /\ last_cleanup = now
    /\ cmLast = NoCMCall
    /\ NoGateway /\ NoMetrics /\ NoTranslation /\ NoThreads

(***************************************************************************)
(* SpecContext is the life of the sessions: creation, refresh, sweep,      *)
(* eviction and deletion while the clock advances, with one message        *)
(* appended at a time.  SpecMessages is the content of the sessions: up to *)
(* MaxAppends messages appended and cleared, for every                     *)
(* max_context_messages, at one instant.                                   *)
(***************************************************************************)
InitContext == InitContextManager(SessionConfigs)

NextContext ==
    \/ \E c \in CMClients : GetOrCreateSession(c.ip, c.user_agent)
    \/ \E oid \in DOMAIN heap, role \in CMRoles, content \in CMContents :
          TotalAppended(heap) = 0 /\ AddMessage(oid, role, content)
    \/ \E session_id \in SessionIds : ClearSession(session_id)
    \/ \E session_id \in SessionIds : DeleteSession(session_id)
    \/ CMTick

SpecContext == InitContext /\ [][NextContext]_vars

\* SpecContextLive is the sweep when get_or_create_session keeps being
\* called and time keeps advancing (up to MaxTime): creation, refresh and
\* sweep, for the largest max_sessions and the cleanup intervals that elapse
\* before MaxTime
InitContextLive ==
    InitContextManager({c \in SessionConfigs :
                            /\ c.max_sessions = MaxSessions
                            /\ c.cleanup_interval <= c.session_timeout})

NextContextLive ==
    \/ \E c \in CMClients : GetOrCreateSession(c.ip, c.user_agent)
    \/ \E oid \in DOMAIN heap, role \in CMRoles, content \in CMContents :
          TotalAppended(heap) = 0 /\ AddMessage(oid, role, content)
    \/ CMTick

SpecContextLive ==
    /\ InitContextLive /\ [][NextContextLive]_vars
    /\ WF_vars(\E c \in CMClients : GetOrCreateSession(c.ip, c.user_agent))
    /\ WF_vars(CMTick)

InitMessages == InitContextManager(MessageConfigs)

NextMessages ==
    \/ \E c \in CMClients : GetOrCreateSession(c.ip, c.user_agent)
    \/ \E oid \in DOMAIN heap, role \in CMRoles, content \in CMContents :
          TotalAppended(heap) < MaxAppends /\ AddMessage(oid, role, content)
    \/ \E session_id \in SessionIds : ClearSession(session_id)

SpecMessages == InitMessages /\ [][NextMessages]_vars

\* SpecShared is the map under clients whose addresses and agent strings
\* hold the separator of the identifier: the IPv6 addresses "::1" and
\* "::1:2", the agent strings "x" and "2:x"
SharedIps == {<<":", ":", "1">>, <<":", ":", "1", ":", "2">>}
SharedAgents == {<<"x">>, <<"2", ":", "x">>}
SharedClients == [ip : SharedIps, user_agent : SharedAgents]

InitShared ==
    InitContextManager({c \in SessionConfigs : c.max_sessions = MaxSessions})

NextShared ==
    \/ \E c \in SharedClients : GetOrCreateSession(c.ip, c.user_agent)
    \/ \E oid \in DOMAIN heap, role \in CMRoles, content \in CMContents :
          TotalAppended(heap) = 0 /\ AddMessage(oid, role, content)

SpecShared == InitShared /\ [][NextShared]_vars

(***************************************************************************)
(* Claims about the context manager.                                       *)
(***************************************************************************)
\* the objects a map holds
Held(map) == {map[i] : i \in DOMAIN map}

\* C12: for every max_context_messages N >= 0, after any sequence of
\* add_message and clear_session calls every session of the map holds at
\* most N messages.
C12_MessagesBounded ==
    \A oid \in Held(sessions) :
        Len(heap[oid].messages) <= cmConfig.max_context_messages

\* C13: once k > N messages were appended to an empty session, with
\* max_context_messages = N >= 1, the session holds exactly the last N of
\* them, in the order they were appended.
C13_KeepsLastN ==
    \A oid \in DOMAIN heap :
        LET n == cmConfig.max_context_messages
            k == Len(heap[oid].appended)
        IN  (n >= 1 /\ k > n) =>
                heap[oid].messages = SubSeq(heap[oid].appended, k - n + 1, k)

\* a session of the map that was given more than N >= 2 messages, of which
\* the two oldest kept differ
C13_Witness ==
    \E oid \in Held(sessions) :
        /\ cmConfig.max_context_messages >= 2
        /\ Len(heap[oid].appended) > cmConfig.max_context_messages
        /\ Len(heap[oid].messages) = cmConfig.max_context_messages
        /\ heap[oid].messages[1] # heap[oid].messages[2]
        /\ heap[oid].appended[1] # heap[oid].messages[1]

\* C14: right after a cleanup sweep the map holds no session whose last
\* activity is more than session_timeout before the time of the sweep, and
\* holds every session within the timeout, its messages unchanged.
C14_SweepRemovesTheExpired ==
    [][last_cleanup' # last_cleanup =>
        /\ cmLast'.swept
        /\ Held(cmLast'.after) \subseteq Held(sessions)
        /\ \A oid \in Held(sessions) :
              IF now - heap[oid].last_activity > cmConfig.session_timeout
              THEN oid \notin Held(cmLast'.after)
              ELSE /\ oid \in Held(cmLast'.after)
                   /\ heap'[oid].messages = heap[oid].messages
      ]_vars

\* a sweep that removed a session and left one that holds a message
C14_Witness ==
    /\ cmLast.swept /\ cmLast.removed >= 1
    /\ \E oid \in Held(cmLast.after) : heap[oid].messages # <<>>

\* the step is a get_or_create_session call
IsGetCall == cmLast'.oid # 0 /\ now' = now

\* C22: a get_or_create_session call for a pair whose session is not in the
\* map (the first call, or the session was deleted, swept or evicted) creates
\* an empty session and stores it; a call for a pair whose session is in the
\* map and is not swept by this call returns that same object, its messages
\* as they were; in both cases the session's id is the one computed from the
\* pair alone.
C22_SameSessionForSamePair ==
    [][IsGetCall =>
        LET session_id == GenerateSessionId(cmLast'.client.ip,
                                            cmLast'.client.user_agent)
            kept == IF cmLast'.swept THEN Held(cmLast'.after) ELSE Held(sessions)
            mine == {oid \in kept : heap[oid].session_id = session_id}
            got == cmLast'.oid
        IN  /\ heap'[got].session_id = session_id
            /\ IF mine = {}
               THEN /\ got \notin DOMAIN heap
                    /\ heap'[got].messages = <<>>
                    /\ cmLast'.raised = "none" => got \in Held(sessions')
               ELSE /\ got \in mine
                    /\ heap'[got].messages = heap[got].messages
                    /\ got \in Held(sessions')
      ]_vars

\* a call that returned, some time after its creation, a session that holds a
\* message, while the map holds another client's session too
C22_Witness ==
    /\ cmLast.oid # 0 /\ cmLast.raised = "none"
    /\ cmLast.oid \in Held(sessions)
    /\ heap[cmLast.oid].messages # <<>>
    /\ heap[cmLast.oid].created_at < heap[cmLast.oid].last_activity
    /\ heap[cmLast.oid].last_activity = now
    /\ Len(sessions) = 2

\* C30: whenever the capacity eviction runs, it removes exactly (session
\* count - max_sessions + 5) sessions, and every session it removes has a
\* last activity at or before that of every session it keeps.
C30_EvictsTheOldest ==
    [][(IsGetCall /\ cmLast'.evicted) =>
        LET before == IF cmLast'.swept THEN Held(cmLast'.after) ELSE Held(sessions)
            stored == before \cup {cmLast'.oid}
            kept == Held(sessions')
            removed == stored \ kept
        IN  /\ Cardinality(removed)
                  = Cardinality(stored) - cmConfig.max_sessions + ExtraRemoved
            /\ \A x \in removed, y \in kept :
                  heap'[x].last_activity <= heap'[y].last_activity
      ]_vars

\* C35: for every max_sessions >= 1, a get_or_create_session call completes
\* without an error, and the session it returns is stored in the map under
\* its id when the call returns.
C35_CallReturnsStoredSession ==
    [][IsGetCall =>
        /\ cmLast'.raised = "none"
        /\ cmLast'.oid \in Held(sessions')
      ]_vars

\* C36: under any interleaving of the calls of concurrent handlers, whenever
\* add_message appends to a session a handler got from
\* get_or_create_session, that object is the one the map holds under its
\* id. Taken over the states in which no call can have evicted (the heap
\* is no larger than max_sessions), where every object of the heap was
\* returned by the call that created it.
C36_AppendsReachTheStoredSession ==
    [][\A oid \in DOMAIN heap :
        (/\ Len(heap) <= cmConfig.max_sessions
         /\ Len(heap'[oid].appended) > Len(heap[oid].appended))
        => oid \in Held(sessions)
      ]_vars

\* C37: two clients whose (address, agent) pairs differ never resolve to the
\* same session id (the digest taken as free of collisions on distinct
\* identifier strings): the session a get_or_create_session call returns was
\* created for the caller's own pair, so its history is the caller's.
C37_SessionsNotShared ==
    [][IsGetCall =>
        /\ heap'[cmLast'.oid].client_info = cmLast'.client
        /\ \A c \in SharedClients :
              c # cmLast'.client =>
                  GenerateSessionId(c.ip, c.user_agent)
                      # heap'[cmLast'.oid].session_id
      ]_vars

\* C40: get_or_create_session never returns a session that existed before
\* the call and had been idle for more than session_timeout: a client that
\* comes back after the timeout gets a new, empty session.
C40_NoStaleSessionReturned ==
    [][IsGetCall =>
        LET got == cmLast'.oid
        IN  got \in DOMAIN heap =>
                now - heap[got].last_activity <= cmConfig.session_timeout
      ]_vars

\* the session is in the map and has been idle for more than session_timeout
IdleTooLong(oid) ==
    /\ oid \in Held(sessions)
    /\ now - heap[oid].last_activity > cmConfig.session_timeout

C15_SessionCap == Len(sessions) <= cmConfig.max_sessions

\* a call that went over the cap and evicted
C15_Witness ==
    /\ cmLast.evicted
    /\ Len(heap) > cmConfig.max_sessions
    /\ Len(sessions) < cmConfig.max_sessions

====
